---- MODULE Spec2Model ----
(***************************************************************************)
(* Customer portal API in front of the ServiceM8 job platform.             *)
(*                                                                         *)
(* Two generations of the code are modelled side by side:                  *)
(*   - the externally-sourced services (JobService, MessageService keyed   *)
(*     by job uuid) which read and write ServiceM8 directly and guard      *)
(*     every job-scoped request by comparing company identifiers;          *)
(*   - the caching generation (BookingService, JobController,              *)
(*     BookingController) which keeps Job documents in the local store.    *)
(* The ServiceM8 platform itself is the environment: a list of jobs        *)
(* addressed by uuid, which answers GET/POST or fails.                     *)
(***************************************************************************)
EXTENDS Integers, Sequences, FiniteSets, TLC

VARIABLES
    now,          \* wall clock, in milliseconds (Date.now())
    customers,    \* Customer collection: customerId -> document
    extJobs,      \* ServiceM8 jobs; the uuid of a job is its index
    numCompanies, \* ServiceM8 companies; uuids are 1..numCompanies
    extAttachments, \* ServiceM8 attachments: job uuid -> set of attachment uuids
    extDeleted,   \* uuids of jobs ServiceM8 no longer has (GET answers 404)
    inflight,     \* getAllBookings requests in progress: request id -> its locals
    sessions,     \* Session collection (set of documents)
    tokens,       \* bearer tokens issued so far and held by clients
    messages,     \* Message collection (keyed by job uuid), insertion order
    jobsDb,       \* Job collection of the caching generation (set of documents)
    nextId,       \* next local _id handed out by the Job collection
    attachments,  \* Attachment collection (set of documents)
    resp          \* what the last request did and answered

vars == <<now, customers, extJobs, numCompanies, extAttachments, extDeleted, inflight,
          sessions, tokens, messages, jobsDb, nextId, attachments, resp>>

\* state that the job, booking and message services never write
readOnlyVars == <<extAttachments, extDeleted, inflight, sessions, tokens>>

cacheVars == <<jobsDb, nextId, attachments>>

(***************************************************************************)
(* Bounds of the model.                                                    *)
(***************************************************************************)
NumCustomers == 2
MaxJobs == 2
MaxCompanies == 3
MaxMessages == 2
MaxWindows == 1
MaxMsTicks == 1
MaxDocs == 2
MaxAttachments == 2
MaxRequests == 2
MaxTokens == 3
MaxSeconds == 1
MaxLifetimes == 1

(***************************************************************************)
(* Program constants.                                                      *)
(***************************************************************************)
CACHE_DURATION_MINUTES == 5
MsPerMinute == 60000
MaxMessageLength == 1000
MinMessageLength == 1
NoUuid == 0

Undef == "undefined"

\* JobRepository.findRecentJobs: minutesAgo * 60 * 1000
CacheWindowMs == CACHE_DURATION_MINUTES * MsPerMinute

Customers == 1..NumCustomers
JobUuids == 1..MaxJobs

\* JavaScript truthiness of an optional string
Truthy(s) == s # Undef /\ s # ""

(***************************************************************************)
(* Message text.  A text is described by its leading whitespace, its core  *)
(* (from the first to the last non-whitespace character) and its trailing  *)
(* whitespace; an all-whitespace text has core 0.                          *)
(***************************************************************************)
Text(l, c, t) == [lead |-> l, core |-> c, trail |-> t]

TextLen(x) == x.lead + x.core + x.trail

\* String.prototype.trim
TrimText(x) == Text(0, x.core, 0)

MessageTexts ==
    { Text(0, 0, 0), Text(1, 0, 0), Text(0, 1, 0), Text(1, 1, 1),
      Text(0, MaxMessageLength, 0), Text(0, MaxMessageLength + 1, 0),
      Text(1, MaxMessageLength - 1, 0), Text(1, MaxMessageLength, 0),
      Text(MaxMessageLength + 1, 0, 0) }

\* the upper limit taken exclusive
SendMessageSchemaBelowMax(x) ==
    TextLen(x) >= MinMessageLength /\ TextLen(x) < MaxMessageLength

\* sendMessageSchema: body.message is a string of 1..1000 characters
SendMessageSchemaOk(x) ==
    TextLen(x) >= MinMessageLength /\ TextLen(x) <= MaxMessageLength

\* MessageService.sendMessage: !trimmedMessage || trimmedMessage.length === 0
MessageIsBlank(x) == TextLen(TrimText(x)) = 0

(***************************************************************************)
(* Contact strings.  An e-mail address is its lower-case, trimmed form     *)
(* plus whether the string as written has upper-case letters or padding;   *)
(* a phone number is its sequence of characters.  A missing (undefined)    *)
(* value and the empty string are both falsy and are modelled alike.       *)
(***************************************************************************)
Email(n, u, p) == [name |-> n, upper |-> u, padded |-> p]

NoEmail == Email("", FALSE, FALSE)

NoPhone == <<>>

\* email.toLowerCase().trim()
NormalizeEmail(e) == Email(e.name, FALSE, FALSE)

DigitChars == {"0", "1", "2", "3", "4", "5", "6", "7", "8", "9"}

IsDigit(ch) == ch \in DigitChars

\* phone.replace(/\D/g, '')
DigitsOf(p) == SelectSeq(p, IsDigit)

\* String.prototype.includes
Includes(hay, needle) ==
    \E i \in 0..(Len(hay) - Len(needle)) : SubSeq(hay, i + 1, i + Len(needle)) = needle

(***************************************************************************)
(* ServiceM8 (environment) and the ServiceM8Service client.                *)
(***************************************************************************)
JobFields ==
    {"active", "status", "job_address", "job_description", "scheduled_date",
     "company_uuid", "job_contact_email", "job_contact_mobile"}

\* the record ServiceM8 stores for POST /job.json with the given payload
ExtNewJob(payload) ==
    [f \in JobFields |->
        IF f \in DOMAIN payload THEN payload[f]
        ELSE IF f = "active" THEN 1
        ELSE IF f = "company_uuid" THEN NoUuid
        ELSE IF f = "job_contact_email" THEN NoEmail
        ELSE IF f = "job_contact_mobile" THEN NoPhone
        ELSE Undef]

\* POST /job/{uuid}.json: the posted fields replace the stored ones
ExtPostJob(old, payload) ==
    [f \in JobFields |-> IF f \in DOMAIN payload THEN payload[f] ELSE old[f]]

JobExists(uuid) == uuid \in 1..Len(extJobs) /\ uuid \notin extDeleted

\* the payload built without the company
CreateJobPayloadNoCompany(jobData) ==
    [job_address |-> jobData.job_address,
     job_description |-> jobData.job_description,
     status |-> IF Truthy(jobData.status) THEN jobData.status ELSE "Quote",
     active |-> 1]

\* ServiceM8Service.createJob builds the payload
CreateJobPayload(jobData) ==
    LET base == [job_address |-> jobData.job_address,
                 job_description |-> jobData.job_description,
                 status |-> IF Truthy(jobData.status) THEN jobData.status ELSE "Quote",
                 active |-> 1]
        withCompany == IF jobData.company_uuid # NoUuid
                       THEN base @@ [company_uuid |-> jobData.company_uuid]
                       ELSE base
    IN  IF Truthy(jobData.scheduled_date)
        THEN withCompany @@ [scheduled_date |-> jobData.scheduled_date]
        ELSE withCompany

\* ServiceM8Service.updateJob merges the update into the record it just read
MergeUpdate(existingJob, jobData) ==
    [f \in JobFields |-> IF f \in DOMAIN jobData THEN jobData[f] ELSE existingJob[f]]

(***************************************************************************)
(* Ownership guard of the externally-sourced services.                     *)
(***************************************************************************)
JobInactive(job) == job.active = 0

\* the guard skipped for a customer that has no company yet
OwnershipMismatchNoCompany(job, customer) ==
    /\ customer.servicem8ClientUuid # NoUuid
    /\ job.company_uuid # customer.servicem8ClientUuid

OwnershipMismatch(job, customer) ==
    job.company_uuid # customer.servicem8ClientUuid

\* the ownership comparison made before the active check
GuardOutcomeOwnerFirst(uuid, customer) ==
    IF ~JobExists(uuid) THEN "NotFound"
    ELSE IF OwnershipMismatch(extJobs[uuid], customer) THEN "Forbidden"
    ELSE IF JobInactive(extJobs[uuid]) THEN "NotFound"
    ELSE "pass"

\* outcome of the guard for a looked-up job: "absent" stands for null
GuardOutcome(uuid, customer) ==
    IF ~JobExists(uuid) THEN "NotFound"
    ELSE IF JobInactive(extJobs[uuid]) THEN "NotFound"
    ELSE IF OwnershipMismatch(extJobs[uuid], customer) THEN "Forbidden"
    ELSE "pass"

StatusCode(outcome) ==
    CASE outcome = "ok" -> 200
      [] outcome = "created" -> 201
      [] outcome = "Validation" -> 400
      [] outcome = "Unauthorized" -> 401
      [] outcome = "Forbidden" -> 403
      [] outcome = "NotFound" -> 404
      [] outcome = "Conflict" -> 409
      [] outcome = "DuplicateKey" -> 409
      [] OTHER -> 500

(***************************************************************************)
(* The record of the last request.                                         *)
(***************************************************************************)
NoJobResult ==
    [id |-> 0, servicem8Uuid |-> 0, status |-> Undef, address |-> Undef,
     description |-> Undef, scheduledDate |-> Undef]

NoInput ==
    [job_address |-> Undef, job_description |-> Undef,
     scheduled_date |-> Undef, status |-> Undef]

\* No bearer token presented.
NoToken == [customerId |-> 0, iat |-> 0, exp |-> 0, signed |-> FALSE]

\* The warning logged for an ownership refusal and the JSON body errorHandler
\* sends for it; both are recorded for ownership refusals only.
NoAudit == [message |-> "none"]
NoBody == [success |-> TRUE, message |-> <<>>]

NoResp ==
    [op |-> "none", gen |-> "none", cust |-> 0, jobUuid |-> 0,
     outcome |-> "none", code |-> 0,
     looked |-> "none", lookedActive |-> 0, lookedCompany |-> NoUuid,
     custCompany |-> NoUuid, calls |-> <<>>,
     input |-> NoInput, text |-> Text(0, 0, 0),
     job |-> NoJobResult, list |-> <<>>, cached |-> FALSE, bookings |-> {},
     latest |-> TRUE, audit |-> NoAudit, body |-> NoBody, token |-> NoToken]

\* what the guard lookup of a request saw
Looked(uuid) ==
    IF JobExists(uuid)
    THEN [looked |-> "found", lookedActive |-> extJobs[uuid].active,
          lookedCompany |-> extJobs[uuid].company_uuid]
    ELSE [looked |-> "absent", lookedActive |-> 0, lookedCompany |-> NoUuid]

Answer(op, gen, c, j, outcome, calls) ==
    [NoResp EXCEPT !.op = op, !.gen = gen, !.cust = c, !.jobUuid = j,
                   !.outcome = outcome, !.code = StatusCode(outcome),
                   !.custCompany = customers[c].servicem8ClientUuid,
                   !.calls = calls]

\* The message each guarded operation gives its ForbiddenError.
ForbiddenMessage(op) ==
    CASE op = "updateJob" -> "You do not have permission to update this job"
      [] op = "deleteJob" -> "You do not have permission to delete this job"
      [] op = "getMessages" -> "You do not have permission to access these messages"
      [] op = "sendMessage" -> "You do not have permission to send messages for this job"
      [] OTHER -> "Access forbidden"

OwnershipRefusalWithIds(op, customerId, jobUuid, jobCompanyUuid, customerCompanyUuid) ==
    [log |-> [message |-> "Customer attempted to access job they do not own",
              customerId |-> customerId, jobUuid |-> jobUuid,
              jobCompanyUuid |-> jobCompanyUuid,
              customerCompanyUuid |-> customerCompanyUuid],
     error |-> [statusCode |-> 403,
                message |-> <<ForbiddenMessage(op), ToString(jobCompanyUuid),
                              ToString(customerCompanyUuid)>>]]

\* The mismatch branch of the guard: logger.warn with both company identifiers,
\* then throw new ForbiddenError(<fixed text>).
OwnershipRefusal(op, customerId, jobUuid, jobCompanyUuid, customerCompanyUuid) ==
    [log |-> [message |-> "Customer attempted to access job they do not own",
              customerId |-> customerId, jobUuid |-> jobUuid,
              jobCompanyUuid |-> jobCompanyUuid,
              customerCompanyUuid |-> customerCompanyUuid],
     error |-> [statusCode |-> 403, message |-> <<ForbiddenMessage(op)>>]]

\* errorHandler for an AppError: { success: false, message: error.message }.
ErrorHandler(error) == [success |-> FALSE, message |-> error.message]

WithLooked(r, uuid) ==
    LET l == [r EXCEPT !.looked = Looked(uuid).looked,
                       !.lookedActive = Looked(uuid).lookedActive,
                       !.lookedCompany = Looked(uuid).lookedCompany]
        refusal == OwnershipRefusal(r.op, r.cust, uuid, Looked(uuid).lookedCompany,
                                    r.custCompany)
    IN  IF r.outcome = "Forbidden"
        THEN [l EXCEPT !.audit = refusal.log, !.body = ErrorHandler(refusal.error)]
        ELSE l

\* JobService.mapServiceM8JobToResult
MapServiceM8JobToResult(uuid, job) ==
    [id |-> uuid, servicem8Uuid |-> uuid, status |-> job.status,
     address |-> job.job_address, description |-> job.job_description,
     scheduledDate |-> job.scheduled_date]

(***************************************************************************)
(* JobService (externally-sourced generation).                             *)
(* `fail` names the ServiceM8 call of the request that fails with a        *)
(* non-404 error ("none": every call answers).                             *)
(***************************************************************************)
Statuses == {"Quote", "Scheduled", "Cancelled"}

\* request bodies that pass createJobSchema
CreateInputs ==
    { [job_address |-> "a1", job_description |-> "d1",
       scheduled_date |-> Undef, status |-> Undef],
      [job_address |-> "a2", job_description |-> "d2",
       scheduled_date |-> "s1", status |-> "Scheduled"] }

\* request bodies that pass updateJobSchema
UpdateInputs ==
    { [job_address |-> "a2", job_description |-> Undef,
       scheduled_date |-> Undef, status |-> Undef],
      [job_address |-> Undef, job_description |-> "d2",
       scheduled_date |-> Undef, status |-> "Scheduled"],
      [job_address |-> Undef, job_description |-> Undef,
       scheduled_date |-> Undef, status |-> Undef] }

\* JobService.updateJob: only the supplied (truthy) fields enter the payload
UpdateDataAllFields(input) == input

UpdateData(input) ==
    [f \in {g \in DOMAIN input : Truthy(input[g])} |-> input[f]]

\* JobService.createJob: status: status || 'Quote'
DefaultStatus(status) == IF Truthy(status) THEN status ELSE "Quote"

JobCreateIgnoresCompanyFailure(c, input, fail) ==
    LET cust == customers[c]
        needCompany == cust.servicem8ClientUuid = NoUuid
        newCompany == numCompanies + 1
        companyUuid == IF needCompany THEN newCompany ELSE cust.servicem8ClientUuid
        companyCalls == IF needCompany
                        THEN <<"POST company", "GET company", "customer.save">>
                        ELSE <<>>
        newJob == ExtNewJob(CreateJobPayload(
                      [job_address |-> input.job_address,
                       job_description |-> input.job_description,
                       scheduled_date |-> input.scheduled_date,
                       status |-> DefaultStatus(input.status),
                       company_uuid |-> companyUuid]))
        newUuid == Len(extJobs) + 1
        r(outcome, calls) ==
            [Answer("createJob", "ext", c, 0, outcome, calls) EXCEPT !.input = input]
    IN  /\ fail \in {"none", "companyPost", "companyGet", "jobPost", "jobGet"}
        /\ fail \in {"companyPost", "companyGet"} => needCompany
        /\ IF fail = "companyPost"
           THEN /\ Len(extJobs) < MaxJobs
                /\ extJobs' = Append(extJobs, [newJob EXCEPT !.company_uuid = NoUuid])
                /\ resp' = r("created", <<"POST company", "POST job", "GET job">>)
                /\ UNCHANGED <<customers, numCompanies>>
           ELSE IF fail = "companyGet"
           THEN /\ numCompanies < MaxCompanies
                /\ numCompanies' = newCompany
                /\ resp' = r("JobCreationError", <<"POST company", "GET company">>)
                /\ UNCHANGED <<customers, extJobs>>
           ELSE /\ needCompany => numCompanies < MaxCompanies
                /\ numCompanies' = IF needCompany THEN newCompany ELSE numCompanies
                /\ customers' = [customers EXCEPT ![c].servicem8ClientUuid = companyUuid]
                /\ IF fail = "jobPost"
                   THEN /\ resp' = r("JobCreationError", companyCalls \o <<"POST job">>)
                        /\ UNCHANGED extJobs
                   ELSE /\ Len(extJobs) < MaxJobs
                        /\ extJobs' = Append(extJobs, newJob)
                        /\ IF fail = "jobGet"
                           THEN resp' = r("JobCreationError",
                                          companyCalls \o <<"POST job", "GET job">>)
                           ELSE resp' = [r("created",
                                            companyCalls \o <<"POST job", "GET job">>)
                                         EXCEPT !.job = MapServiceM8JobToResult(newUuid, newJob),
                                                !.jobUuid = newUuid]
        /\ UNCHANGED <<now, readOnlyVars, messages, cacheVars>>

JobCreate(c, input, fail) ==
    LET cust == customers[c]
        needCompany == cust.servicem8ClientUuid = NoUuid
        newCompany == numCompanies + 1
        companyUuid == IF needCompany THEN newCompany ELSE cust.servicem8ClientUuid
        companyCalls == IF needCompany
                        THEN <<"POST company", "GET company", "customer.save">>
                        ELSE <<>>
        newJob == ExtNewJob(CreateJobPayload(
                      [job_address |-> input.job_address,
                       job_description |-> input.job_description,
                       scheduled_date |-> input.scheduled_date,
                       status |-> DefaultStatus(input.status),
                       company_uuid |-> companyUuid]))
        newUuid == Len(extJobs) + 1
        r(outcome, calls) ==
            [Answer("createJob", "ext", c, 0, outcome, calls) EXCEPT !.input = input]
    IN  /\ fail \in {"none", "companyPost", "companyGet", "jobPost", "jobGet"}
        /\ fail \in {"companyPost", "companyGet"} => needCompany
        /\ IF fail = "companyPost"
           THEN /\ resp' = r("JobCreationError", <<"POST company">>)
                /\ UNCHANGED <<customers, extJobs, numCompanies>>
           ELSE IF fail = "companyGet"
           THEN /\ numCompanies < MaxCompanies
                /\ numCompanies' = newCompany
                /\ resp' = r("JobCreationError", <<"POST company", "GET company">>)
                /\ UNCHANGED <<customers, extJobs>>
           ELSE /\ needCompany => numCompanies < MaxCompanies
                /\ numCompanies' = IF needCompany THEN newCompany ELSE numCompanies
                /\ customers' = [customers EXCEPT ![c].servicem8ClientUuid = companyUuid]
                /\ IF fail = "jobPost"
                   THEN /\ resp' = r("JobCreationError", companyCalls \o <<"POST job">>)
                        /\ UNCHANGED extJobs
                   ELSE /\ Len(extJobs) < MaxJobs
                        /\ extJobs' = Append(extJobs, newJob)
                        /\ IF fail = "jobGet"
                           THEN resp' = r("JobCreationError",
                                          companyCalls \o <<"POST job", "GET job">>)
                           ELSE resp' = [r("created",
                                            companyCalls \o <<"POST job", "GET job">>)
                                         EXCEPT !.job = MapServiceM8JobToResult(newUuid, newJob),
                                                !.jobUuid = newUuid]
        /\ UNCHANGED <<now, readOnlyVars, messages, cacheVars>>

\* the guard shared by updateJob and deleteJob, then ServiceM8Service.updateJob
\* (read the record, merge, post the whole record, read it again)
GuardedWrite(op, c, j, input, jobData, fail, failure, success) ==
    LET g == GuardOutcome(j, customers[c])
        r(outcome, calls) ==
            [WithLooked(Answer(op, "ext", c, j, outcome, calls), j) EXCEPT !.input = input]
        merged == MergeUpdate(extJobs[j], jobData)
    IN  /\ fail \in {"none", "guardGet", "mergeGet", "post", "finalGet"}
        /\ fail \in {"mergeGet", "post", "finalGet"} => g = "pass"
        /\ IF fail = "guardGet"
           THEN /\ resp' = [Answer(op, "ext", c, j, "UpstreamError", <<"GET job">>)
                            EXCEPT !.input = input]
                /\ UNCHANGED extJobs
           ELSE IF g # "pass"
           THEN /\ resp' = r(g, <<"GET job">>)
                /\ UNCHANGED extJobs
           ELSE IF fail = "mergeGet"
           THEN /\ resp' = r(failure, <<"GET job", "GET job">>)
                /\ UNCHANGED extJobs
           ELSE IF fail = "post"
           THEN /\ resp' = r(failure, <<"GET job", "GET job", "POST job">>)
                /\ UNCHANGED extJobs
           ELSE /\ extJobs' = [extJobs EXCEPT ![j] = ExtPostJob(@, merged)]
                /\ IF fail = "finalGet"
                   THEN resp' = r(failure, <<"GET job", "GET job", "POST job", "GET job">>)
                   ELSE resp' = [r(success, <<"GET job", "GET job", "POST job", "GET job">>)
                                 EXCEPT !.job = IF op = "updateJob"
                                                THEN MapServiceM8JobToResult(j, merged)
                                                ELSE NoJobResult]
        /\ UNCHANGED <<now, customers, numCompanies, readOnlyVars, messages, cacheVars>>

JobUpdate(c, j, input, fail) ==
    GuardedWrite("updateJob", c, j, input, UpdateData(input), fail, "JobUpdateError", "ok")

JobDelete(c, j, fail) ==
    GuardedWrite("deleteJob", c, j, NoInput, [active |-> 0], fail, "JobDeletionError", "ok")

(***************************************************************************)
(* MessageService (keyed by job uuid) behind POST/GET /messages/:jobId.    *)
(***************************************************************************)
SortAscending(a, b) == a <= b

MessageIdsOf(j) ==
    {i \in 1..Len(messages) : "jobUuid" \in DOMAIN messages[i] /\ messages[i].jobUuid = j}

\* find({jobUuid}).sort({createdAt: 1}): every order of the job's messages
\* that is ascending in createdAt; documents with equal createdAt may come
\* back in either order
FindByJobUuidLean(j) ==
    LET ids == MessageIdsOf(j)
        n == Cardinality(ids)
    IN  {s \in [1..n -> ids] :
            /\ \A a, b \in 1..n : s[a] = s[b] => a = b
            /\ \A a, b \in 1..n :
                  a < b => SortAscending(messages[s[a]].createdAt, messages[s[b]].createdAt)}

GetMessages(c, j, fail) ==
    LET g == GuardOutcome(j, customers[c])
        r(outcome, calls) == WithLooked(Answer("getMessages", "ext", c, j, outcome, calls), j)
    IN  /\ fail \in {"none", "guardGet"}
        /\ IF fail = "guardGet"
           THEN resp' = Answer("getMessages", "ext", c, j, "UpstreamError", <<"GET job">>)
           ELSE IF g # "pass"
           THEN resp' = r(g, <<"GET job">>)
           ELSE \E l \in FindByJobUuidLean(j) :
                    resp' = [r("ok", <<"GET job", "message.find">>) EXCEPT !.list = l]
        /\ UNCHANGED <<now, customers, extJobs, numCompanies, readOnlyVars, messages, cacheVars>>

SendMessage(c, j, text, fail) ==
    LET g == GuardOutcome(j, customers[c])
        a(outcome, calls) ==
            [Answer("sendMessage", "ext", c, j, outcome, calls) EXCEPT !.text = text]
        r(outcome, calls) == WithLooked(a(outcome, calls), j)
        newMessage == [jobUuid |-> j, customerId |-> c, message |-> TrimText(text),
                       senderType |-> "customer", createdAt |-> now]
    IN  /\ fail \in {"none", "guardGet"}
        /\ fail = "guardGet" => SendMessageSchemaOk(text) /\ ~MessageIsBlank(text)
        /\ IF ~SendMessageSchemaOk(text)
           THEN resp' = a("Validation", <<>>) /\ UNCHANGED messages
           ELSE IF MessageIsBlank(text)
           THEN resp' = a("Validation", <<>>) /\ UNCHANGED messages
           ELSE IF fail = "guardGet"
           THEN resp' = a("UpstreamError", <<"GET job">>) /\ UNCHANGED messages
           ELSE IF g # "pass"
           THEN resp' = r(g, <<"GET job">>) /\ UNCHANGED messages
           ELSE /\ Len(messages) < MaxMessages
                /\ messages' = Append(messages, newMessage)
                /\ resp' = [r("created", <<"GET job", "message.create">>)
                            EXCEPT !.list = <<Len(messages) + 1>>]
        /\ UNCHANGED <<now, customers, extJobs, numCompanies, readOnlyVars, cacheVars>>

(***************************************************************************)
(* Environment: the clock, and staff working in ServiceM8 directly.        *)
(***************************************************************************)
TickMs ==
    /\ now % CacheWindowMs < MaxMsTicks
    /\ now' = now + 1
    /\ UNCHANGED <<customers, extJobs, numCompanies, readOnlyVars, messages, cacheVars, resp>>

\* time passes by a whole cache window
TickWindow ==
    /\ now \div CacheWindowMs < MaxWindows
    /\ now' = now + CacheWindowMs
    /\ UNCHANGED <<customers, extJobs, numCompanies, readOnlyVars, messages, cacheVars, resp>>

StaffJobs ==
    { ExtNewJob([company_uuid |-> co, active |-> 1, status |-> "Quote",
                 job_address |-> "a1", job_description |-> "d1"]) :
        co \in 0..2 }

StaffCreateJob(job) ==
    /\ Len(extJobs) < MaxJobs
    /\ extJobs' = Append(extJobs, job)
    /\ UNCHANGED <<now, customers, numCompanies, readOnlyVars, messages, cacheVars, resp>>

(***************************************************************************)
(* Specification of the externally-sourced generation.                     *)
(***************************************************************************)
CustomerDoc(uuid, email, phone) ==
    [servicem8ClientUuid |-> uuid, email |-> email, phone |-> phone]

InitCustomers ==
    { [c \in Customers |->
          IF c = 1 THEN CustomerDoc(1, Email("a@x", FALSE, FALSE), NoPhone)
          ELSE CustomerDoc(IF u = NoUuid THEN NoUuid ELSE c, NoEmail, <<"0", "4", "1">>)] :
        u \in {NoUuid, 2} }

Init ==
    /\ now = 0
    /\ customers \in InitCustomers
    /\ extJobs = <<>>
    /\ numCompanies = 2
    /\ messages = <<>>
    /\ extAttachments = [j \in JobUuids |-> {}]
    /\ extDeleted = {}
    /\ inflight = <<>>
    /\ sessions = {}
    /\ tokens = {}
    /\ jobsDb = {}
    /\ nextId = 1
    /\ attachments = {}
    /\ resp = NoResp

\* JobService.createJob / updateJob / deleteJob against ServiceM8
NextExt ==
    \/ \E c \in Customers, input \in CreateInputs :
          \E fail \in {"none", "companyPost", "companyGet", "jobPost", "jobGet"} :
              JobCreate(c, input, fail)
    \/ \E c \in Customers, j \in JobUuids, input \in UpdateInputs :
          \E fail \in {"none", "guardGet", "mergeGet", "post", "finalGet"} :
              JobUpdate(c, j, input, fail)
    \/ \E c \in Customers, j \in JobUuids :
          \E fail \in {"none", "guardGet", "mergeGet", "post", "finalGet"} :
              JobDelete(c, j, fail)

SpecExt == Init /\ [][NextExt]_vars

\* the four operations behind the ownership guard
GuardTexts == {Text(1, 0, 0), Text(0, 1, 0)}

GuardInputs == {u \in UpdateInputs : Truthy(u.job_address)}

NextGuard ==
    \/ \E c \in Customers, j \in JobUuids, input \in GuardInputs :
          \E fail \in {"none", "guardGet", "post"} : JobUpdate(c, j, input, fail)
    \/ \E c \in Customers, j \in JobUuids :
          \E fail \in {"none", "guardGet", "post"} : JobDelete(c, j, fail)
    \/ \E c \in Customers, j \in JobUuids, fail \in {"none", "guardGet"} :
          GetMessages(c, j, fail)
    \/ \E c \in Customers, j \in JobUuids, text \in GuardTexts :
          \E fail \in {"none", "guardGet"} : SendMessage(c, j, text, fail)
    \/ \E job \in StaffJobs : StaffCreateJob(job)

SpecGuard == Init /\ [][NextGuard]_vars

\* messaging over time
NextMsg ==
    \/ \E c \in Customers, j \in JobUuids, fail \in {"none", "guardGet"} :
          GetMessages(c, j, fail)
    \/ \E c \in Customers, j \in JobUuids, text \in MessageTexts :
          \E fail \in {"none", "guardGet"} : SendMessage(c, j, text, fail)
    \/ TickMs

InitMsg ==
    /\ now = 0
    /\ customers = [c \in Customers |-> CustomerDoc(c, NoEmail, <<"0", "4", "1">>)]
    /\ extJobs = [j \in JobUuids |-> CHOOSE job \in StaffJobs : job.company_uuid = 1]
    /\ numCompanies = 2
    /\ messages = <<>>
    /\ extAttachments = [j \in JobUuids |-> {}]
    /\ extDeleted = {}
    /\ inflight = <<>>
    /\ sessions = {}
    /\ tokens = {}
    /\ jobsDb = {}
    /\ nextId = 1
    /\ attachments = {}
    /\ resp = NoResp

SpecMsg == InitMsg /\ [][NextMsg]_vars

(***************************************************************************)
(* Caching generation: the Job collection and BookingService.              *)
(***************************************************************************)
LocalIds == 1..MaxDocs

\* ServiceM8Service.matchJobsToCustomer, for one job
MatchesCustomer(job, email, phone) ==
    LET normalizedEmail == NormalizeEmail(email)
        normalizedPhone == DigitsOf(phone)
        jobEmail == NormalizeEmail(job.job_contact_email)
        jobPhone == DigitsOf(job.job_contact_mobile)
        emailMatch == jobEmail.name # "" /\ jobEmail = normalizedEmail
        phoneMatch == jobPhone # <<>> /\ Includes(jobPhone, normalizedPhone)
    IN  emailMatch \/ phoneMatch

MatchJobsToCustomer(email, phone) ==
    {u \in 1..Len(extJobs) : JobExists(u) /\ MatchesCustomer(extJobs[u], email, phone)}

\* BookingService.syncJobsToDatabase builds jobData from a ServiceM8 job
JobData(uuid, job, customerId) ==
    [servicem8Uuid |-> uuid, customerId |-> customerId, status |-> job.status,
     jobAddress |-> job.job_address, jobDescription |-> job.job_description,
     scheduledDate |-> job.scheduled_date,
     contactEmail |-> job.job_contact_email, contactPhone |-> job.job_contact_mobile]

\* a Job document inserted at time t: the data, the local _id and the
\* timestamps of the schema (timestamps: true)
JobDoc(id, jobData, t) == jobData @@ [_id |-> id, createdAt |-> t, updatedAt |-> t]

DocsByUuid(db, uuid) == {d \in db : d.servicem8Uuid = uuid}

\* an insert whatever the collection holds
UpsertAlwaysInsert(db, id, uuid, jobData, t) == db \cup {JobDoc(id, jobData, t)}

\* JobRepository.upsertByServiceM8Uuid: findOneAndUpdate({servicem8Uuid},
\* {$set: jobData}, {upsert: true, new: true}); `id` is the _id of an insert
UpsertKeepExisting(db, id, uuid, jobData, t) ==
    IF DocsByUuid(db, uuid) = {} THEN db \cup {JobDoc(id, jobData, t)} ELSE db

UpsertByServiceM8Uuid(db, id, uuid, jobData, t) ==
    IF DocsByUuid(db, uuid) = {}
    THEN db \cup {JobDoc(id, jobData, t)}
    ELSE LET d == CHOOSE x \in DocsByUuid(db, uuid) : TRUE
         IN  (db \ {d}) \cup {[JobDoc(d._id, jobData, t) EXCEPT !.createdAt = d.createdAt]}

\* the upserts of one sync, applied for each matched job
RECURSIVE SyncJobsToDatabase(_, _, _, _, _)
SyncJobsToDatabase(db, id, uuids, customerId, t) ==
    IF uuids = {} THEN [db |-> db, id |-> id]
    ELSE LET u == CHOOSE x \in uuids : \A y \in uuids : x <= y
             inserts == DocsByUuid(db, u) = {}
         IN  SyncJobsToDatabase(
                 UpsertByServiceM8Uuid(db, id, u, JobData(u, extJobs[u], customerId), t),
                 IF inserts THEN id + 1 ELSE id,
                 uuids \ {u}, customerId, t)

\* $gt in place of $gte
IsRecentStrict(doc, timeThreshold) == doc.updatedAt > timeThreshold

\* updatedAt: { $gte: timeThreshold }
IsRecent(doc, timeThreshold) == doc.updatedAt >= timeThreshold

\* JobRepository.findRecentJobs
FindRecentJobs(db, customerId, minutesAgo, t) ==
    {d \in db : d.customerId = customerId /\ IsRecent(d, t - minutesAgo * MsPerMinute)}

\* the address taken from the description
MapJobToSummaryMixed(d) ==
    [id |-> d._id, servicem8Uuid |-> d.servicem8Uuid, status |-> d.status,
     address |-> d.jobDescription, description |-> d.jobDescription,
     scheduledDate |-> d.scheduledDate]

\* BookingService.mapJobToSummary
MapJobToSummary(d) ==
    [id |-> d._id, servicem8Uuid |-> d.servicem8Uuid, status |-> d.status,
     address |-> d.jobAddress, description |-> d.jobDescription,
     scheduledDate |-> d.scheduledDate]

GetAllBookingsCachesPartial(c, fail) ==
    LET cachedJobs == FindRecentJobs(jobsDb, c, CACHE_DURATION_MINUTES, now)
        customerJobs == MatchJobsToCustomer(customers[c].email, customers[c].phone)
        synced == SyncJobsToDatabase(jobsDb, nextId, customerJobs, c, now)
        savedJobs == {d \in synced.db : d.servicem8Uuid \in customerJobs}
        r(outcome, calls) == Answer("getAllBookings", "cache", c, 0, outcome, calls)
    IN  /\ fail \in {"none", "listGet"}
        /\ fail = "listGet" => cachedJobs = {}
        /\ IF cachedJobs # {}
           THEN /\ resp' = [r("ok", <<"job.find">>)
                            EXCEPT !.cached = TRUE,
                                   !.bookings = {MapJobToSummary(d) : d \in cachedJobs}]
                /\ UNCHANGED <<jobsDb, nextId>>
           ELSE IF fail = "listGet"
           THEN /\ resp' = r("UpstreamError", <<"job.find", "GET jobs">>)
                /\ synced.id <= MaxDocs + 1
                /\ jobsDb' = synced.db
                /\ nextId' = synced.id
           ELSE /\ synced.id <= MaxDocs + 1
                /\ jobsDb' = synced.db
                /\ nextId' = synced.id
                /\ resp' = [r("ok", <<"job.find", "GET jobs", "job.upsert">>)
                            EXCEPT !.cached = FALSE,
                                   !.bookings = {MapJobToSummary(d) : d \in savedJobs}]
        /\ UNCHANGED <<now, customers, extJobs, numCompanies, readOnlyVars, messages,
                       attachments>>

GetAllBookings(c, fail) ==
    LET cachedJobs == FindRecentJobs(jobsDb, c, CACHE_DURATION_MINUTES, now)
        customerJobs == MatchJobsToCustomer(customers[c].email, customers[c].phone)
        synced == SyncJobsToDatabase(jobsDb, nextId, customerJobs, c, now)
        savedJobs == {d \in synced.db : d.servicem8Uuid \in customerJobs}
        r(outcome, calls) == Answer("getAllBookings", "cache", c, 0, outcome, calls)
    IN  /\ fail \in {"none", "listGet"}
        /\ fail = "listGet" => cachedJobs = {}
        /\ IF cachedJobs # {}
           THEN /\ resp' = [r("ok", <<"job.find">>)
                            EXCEPT !.cached = TRUE,
                                   !.bookings = {MapJobToSummary(d) : d \in cachedJobs}]
                /\ UNCHANGED <<jobsDb, nextId>>
           ELSE IF fail = "listGet"
           THEN /\ resp' = r("UpstreamError", <<"job.find", "GET jobs">>)
                /\ UNCHANGED <<jobsDb, nextId>>
           ELSE /\ synced.id <= MaxDocs + 1
                /\ jobsDb' = synced.db
                /\ nextId' = synced.id
                /\ resp' = [r("ok", <<"job.find", "GET jobs", "job.upsert">>)
                            EXCEPT !.cached = FALSE,
                                   !.bookings = {MapJobToSummary(d) : d \in savedJobs}]
        /\ UNCHANGED <<now, customers, extJobs, numCompanies, readOnlyVars, messages,
                       attachments>>

\* the lookup without the customer in the filter
FindJobOfAnyCustomer(db, id, customerId) == {d \in db : d._id = id}

\* jobRepository.findOne({ _id: bookingId, customerId })
FindOwnJob(db, id, customerId) == {d \in db : d._id = id /\ d.customerId = customerId}

\* the fields getBookingById refreshes from the ServiceM8 job
RefreshJob(d, freshJob, t) ==
    [d EXCEPT !.status = freshJob.status, !.jobAddress = freshJob.job_address,
              !.jobDescription = freshJob.job_description,
              !.scheduledDate = freshJob.scheduled_date, !.updatedAt = t]

\* AttachmentRepository.upsert for every attachment ServiceM8 lists for the job
\* AttachmentRepository.upsert: findOneAndUpdate({servicem8Uuid}, {$set: {...,
\* jobId}}, {upsert}) updates one matching record, or inserts a new one.
\* Attachment records are never removed, so the next _id is the count plus one.
UpsertAttachment(atts, jobId, uuid) ==
    LET matching == {a \in atts : a.servicem8Uuid = uuid}
    IN  IF matching = {}
        THEN atts \cup {[_id |-> Cardinality(atts) + 1, servicem8Uuid |-> uuid,
                         jobId |-> jobId]}
        ELSE LET a == CHOOSE x \in matching : \A y \in matching : x._id <= y._id
             IN  (atts \ {a}) \cup {[a EXCEPT !.jobId = jobId]}

RECURSIVE UpsertAttachments(_, _, _)
UpsertAttachments(atts, jobId, uuids) ==
    IF uuids = {} THEN atts
    ELSE LET u == CHOOSE x \in uuids : \A y \in uuids : x <= y
         IN  UpsertAttachments(UpsertAttachment(atts, jobId, u), jobId, uuids \ {u})

GetJobAttachmentsAlwaysFetch(atts, jobId, fetched) ==
    UpsertAttachments(atts, jobId, fetched)

\* getJobAttachments: the cached records if there are any, else what ServiceM8
\* returns, upserted.
GetJobAttachments(atts, jobId, fetched) ==
    IF {a \in atts : a.jobId = jobId} # {} THEN atts
    ELSE UpsertAttachments(atts, jobId, fetched)

GetBookingById(c, id, fail) ==
    LET found == FindOwnJob(jobsDb, id, c)
        job == CHOOSE d \in found : TRUE
        freshExists == JobExists(job.servicem8Uuid)
        refreshed == IF freshExists
                     THEN RefreshJob(job, extJobs[job.servicem8Uuid], now)
                     ELSE job
        cachedAttachments == {a \in attachments : a.jobId = id}
        fetched == IF fail = "attGet" THEN {} ELSE extAttachments[job.servicem8Uuid]
        anyDoc == {d \in jobsDb : d._id = id}
        r(outcome, calls) ==
            IF anyDoc = {} THEN Answer("getBookingById", "cache", c, id, outcome, calls)
            ELSE WithLooked(Answer("getBookingById", "cache", c, id, outcome, calls),
                            (CHOOSE d \in anyDoc : TRUE).servicem8Uuid)
    IN  /\ fail \in {"none", "jobGet", "attGet"}
        /\ fail # "none" => found # {}
        /\ fail = "attGet" => cachedAttachments = {}
        /\ IF found = {}
           THEN /\ resp' = r("NotFound", <<"job.findOne">>)
                /\ UNCHANGED <<jobsDb, attachments>>
           ELSE IF fail = "jobGet"
           THEN /\ resp' = r("UpstreamError", <<"job.findOne", "GET job">>)
                /\ UNCHANGED <<jobsDb, attachments>>
           ELSE /\ jobsDb' = (jobsDb \ {job}) \cup {refreshed}
                /\ attachments' = GetJobAttachments(attachments, id, fetched)
                /\ resp' = [r("ok", <<"job.findOne", "GET job">>
                                    \o (IF freshExists THEN <<"job.update">> ELSE <<>>)
                                    \o <<"attachment.find">>
                                    \o (IF cachedAttachments # {} THEN <<>>
                                        ELSE <<"GET attachments">>))
                            EXCEPT !.job = MapJobToSummary(refreshed)]
        /\ UNCHANGED <<now, customers, extJobs, numCompanies, readOnlyVars, messages,
                       nextId>>

(***************************************************************************)
(* Caching generation: JobController.                                      *)
(***************************************************************************)
\* contactEmail: servicem8Job.job_contact_email || customer.email
OrElse(a, b, empty) == IF a # empty THEN a ELSE b

CtlCreateJob(c, input, fail) ==
    LET newJob == ExtNewJob(CreateJobPayload(
                      [job_address |-> input.job_address,
                       job_description |-> input.job_description,
                       scheduled_date |-> input.scheduled_date,
                       status |-> DefaultStatus(input.status),
                       company_uuid |-> customers[c].servicem8ClientUuid]))
        newUuid == Len(extJobs) + 1
        doc == JobDoc(nextId,
                      [JobData(newUuid, newJob, c) EXCEPT
                          !.contactEmail = OrElse(newJob.job_contact_email,
                                                  customers[c].email, NoEmail),
                          !.contactPhone = OrElse(newJob.job_contact_mobile,
                                                  customers[c].phone, NoPhone)],
                      now)
        r(outcome, calls) ==
            [Answer("createJob", "cache", c, 0, outcome, calls) EXCEPT !.input = input]
    IN  /\ fail \in {"none", "jobPost", "jobGet", "localWrite"}
        /\ IF fail = "jobPost"
           THEN /\ resp' = r("ServerError", <<"POST job">>)
                /\ UNCHANGED <<extJobs, jobsDb, nextId>>
           ELSE /\ Len(extJobs) < MaxJobs
                /\ extJobs' = Append(extJobs, newJob)
                /\ IF fail = "jobGet"
                   THEN /\ resp' = r("ServerError", <<"POST job", "GET job">>)
                        /\ UNCHANGED <<jobsDb, nextId>>
                   ELSE IF fail = "localWrite"
                   THEN \* Job.create rejects: the outer catch answers 500
                        /\ resp' = r("ServerError", <<"POST job", "GET job", "job.create">>)
                        /\ UNCHANGED <<jobsDb, nextId>>
                   ELSE /\ nextId <= MaxDocs
                        /\ jobsDb' = jobsDb \cup {doc}
                        /\ nextId' = nextId + 1
                        /\ resp' = [r("created", <<"POST job", "GET job", "job.create">>)
                                    EXCEPT !.job = MapJobToSummary(doc),
                                           !.jobUuid = doc._id]
        /\ UNCHANGED <<now, customers, numCompanies, readOnlyVars, messages, attachments>>

CtlDeleteJob(c, id, fail) ==
    LET found == FindOwnJob(jobsDb, id, c)
        job == CHOOSE d \in found : TRUE
        uuid == job.servicem8Uuid
        r(outcome, calls) == Answer("deleteJob", "cache", c, id, outcome, calls)
        cancelled == MergeUpdate(extJobs[uuid], [status |-> "Cancelled"])
    IN  /\ fail \in {"none", "mergeGet", "post", "finalGet"}
        /\ fail # "none" => found # {}
        /\ IF found = {}
           THEN /\ resp' = r("NotFound", <<"job.findOne">>)
                /\ UNCHANGED <<extJobs, jobsDb>>
           ELSE /\ jobsDb' = jobsDb \ {d \in jobsDb : d._id = id}
                /\ IF fail = "mergeGet" \/ ~JobExists(uuid)
                   THEN /\ resp' = r("ok", <<"job.findOne", "GET job", "job.deleteOne">>)
                        /\ UNCHANGED extJobs
                   ELSE IF fail = "post"
                   THEN /\ resp' = r("ok", <<"job.findOne", "GET job", "POST job",
                                             "job.deleteOne">>)
                        /\ UNCHANGED extJobs
                   ELSE /\ extJobs' = [extJobs EXCEPT ![uuid] = ExtPostJob(@, cancelled)]
                        /\ resp' = r("ok", <<"job.findOne", "GET job", "POST job", "GET job",
                                             "job.deleteOne">>)
        /\ UNCHANGED <<now, customers, numCompanies, readOnlyVars, messages, nextId,
                       attachments>>

\* staff create jobs for customers they know by e-mail address or phone
StaffContactJobs ==
    { ExtNewJob([company_uuid |-> 1, status |-> "Quote", job_address |-> "a1",
                 job_description |-> "d1",
                 job_contact_email |-> Email("a@x", TRUE, TRUE)]),
      ExtNewJob([company_uuid |-> 2, status |-> "Quote", job_address |-> "a1",
                 job_description |-> "d1",
                 job_contact_mobile |-> <<"0", "4", "-", "1">>]) }

\* staff move a job along; the last response no longer is the latest event
StaffSetStatus(j, status) ==
    /\ JobExists(j)
    /\ extJobs[j].status # status
    /\ extJobs' = [extJobs EXCEPT ![j].status = status]
    /\ resp' = [resp EXCEPT !.latest = FALSE]
    /\ UNCHANGED <<now, customers, numCompanies, readOnlyVars, messages, cacheVars>>

InitCache ==
    /\ now = 0
    /\ customers = [c \in Customers |->
                        IF c = 1 THEN CustomerDoc(1, Email("a@x", FALSE, FALSE), NoPhone)
                        ELSE CustomerDoc(c, NoEmail, <<"0", "4", "1">>)]
    /\ extJobs = <<>>
    /\ numCompanies = NumCustomers
    /\ extAttachments = [j \in JobUuids |-> IF j = 1 THEN {1} ELSE {}]
    /\ extDeleted = {}
    /\ inflight = <<>>
    /\ sessions = {}
    /\ tokens = {}
    /\ messages = <<>>
    /\ jobsDb = {}
    /\ nextId = 1
    /\ attachments = {}
    /\ resp = NoResp

NextCache ==
    \/ \E c \in Customers, fail \in {"none", "listGet"} : GetAllBookings(c, fail)
    \/ \E job \in StaffContactJobs : StaffCreateJob(job)
    \/ \E j \in JobUuids : StaffSetStatus(j, "Scheduled")
    \/ TickMs
    \/ TickWindow

SpecCache == InitCache /\ [][NextCache]_vars

\* the job and booking endpoints over the local Job collection
\* JobController.updateJob: Job.findOne({_id, customerId}), then the update in
\* ServiceM8, then job.save(); the save sits in the same try block as the
\* ServiceM8 call, so a rejected save is answered with 500 as well.
CtlUpdateJob(c, id, input, fail) ==
    LET found == FindOwnJob(jobsDb, id, c)
        job == CHOOSE d \in found : TRUE
        uuid == job.servicem8Uuid
        r(outcome, calls) ==
            [Answer("updateJob", "cache", c, id, outcome, calls) EXCEPT !.input = input]
        merged == MergeUpdate(extJobs[uuid], UpdateData(input))
        saved == RefreshJob(job, merged, now)
    IN  /\ fail \in {"none", "post", "localWrite"}
        /\ fail # "none" => (found # {} /\ JobExists(uuid))
        /\ IF found = {}
           THEN /\ resp' = r("NotFound", <<"job.findOne">>)
                /\ UNCHANGED <<extJobs, jobsDb>>
           ELSE IF ~JobExists(uuid)
           THEN /\ resp' = r("ServerError", <<"job.findOne", "GET job">>)
                /\ UNCHANGED <<extJobs, jobsDb>>
           ELSE IF fail = "post"
           THEN /\ resp' = r("ServerError", <<"job.findOne", "GET job", "POST job">>)
                /\ UNCHANGED <<extJobs, jobsDb>>
           ELSE /\ extJobs' = [extJobs EXCEPT ![uuid] = ExtPostJob(@, merged)]
                /\ IF fail = "localWrite"
                   THEN /\ resp' = r("ServerError", <<"job.findOne", "GET job", "POST job",
                                                      "GET job", "job.save">>)
                        /\ UNCHANGED jobsDb
                   ELSE /\ jobsDb' = (jobsDb \ {job}) \cup {saved}
                        /\ resp' = [r("ok", <<"job.findOne", "GET job", "POST job",
                                              "GET job", "job.save">>)
                                    EXCEPT !.job = MapJobToSummary(saved)]
        /\ UNCHANGED <<now, customers, numCompanies, readOnlyVars, messages, nextId,
                       attachments>>

NextBook ==
    \/ \E c \in Customers, id \in LocalIds, fail \in {"none", "jobGet", "attGet"} :
          GetBookingById(c, id, fail)
    \/ \E c \in Customers, input \in CreateInputs, fail \in {"none", "jobPost", "jobGet"} :
          CtlCreateJob(c, input, fail)
    \/ \E c \in Customers, id \in LocalIds, fail \in {"none", "post"} :
          CtlDeleteJob(c, id, fail)
    \/ \E j \in JobUuids : StaffSetStatus(j, "Scheduled")

SpecBook == InitCache /\ [][NextBook]_vars

\* staff remove a job from ServiceM8: GET /job/{uuid}.json answers 404 from now on
StaffDeleteJob(j) ==
    /\ JobExists(j)
    /\ extDeleted' = extDeleted \cup {j}
    /\ resp' = [resp EXCEPT !.latest = FALSE]
    /\ UNCHANGED <<now, customers, extJobs, numCompanies, extAttachments, inflight, sessions, tokens,
                   messages, cacheVars>>

\* staff attach a file to a job in ServiceM8
StaffAddAttachment(j, a) ==
    /\ JobExists(j)
    /\ a \notin UNION {extAttachments[u] : u \in JobUuids}
    /\ extAttachments' = [extAttachments EXCEPT ![j] = @ \cup {a}]
    /\ UNCHANGED <<now, customers, extJobs, numCompanies, extDeleted, inflight, sessions, tokens,
                   messages, cacheVars, resp>>

\* the booking detail while staff keep working in ServiceM8
NextDetail ==
    \/ \E c \in Customers, id \in LocalIds, fail \in {"none", "jobGet", "attGet"} :
          GetBookingById(c, id, fail)
    \/ \E c \in Customers :
          CtlCreateJob(c, CHOOSE i \in CreateInputs : i.status = Undef, "none")
    \/ \E j \in JobUuids : StaffSetStatus(j, "Scheduled")
    \/ \E j \in JobUuids : StaffDeleteJob(j)
    \/ \E j \in JobUuids, a \in 1..MaxAttachments : StaffAddAttachment(j, a)

SpecDetail == InitCache /\ [][NextDetail]_vars

(***************************************************************************)
(* MessageService of the caching generation: messages keyed by the local   *)
(* job id, the job looked up in the Job collection by _id and customerId.  *)
(***************************************************************************)
MessageIdsOfJobId(id) ==
    {i \in 1..Len(messages) : "jobId" \in DOMAIN messages[i] /\ messages[i].jobId = id}

\* find({ jobId }).sort({ createdAt: 1 })
FindByJobIdLean(id) ==
    LET ids == MessageIdsOfJobId(id)
        n == Cardinality(ids)
    IN  {s \in [1..n -> ids] :
            /\ \A a, b \in 1..n : s[a] = s[b] => a = b
            /\ \A a, b \in 1..n :
                  a < b => SortAscending(messages[s[a]].createdAt, messages[s[b]].createdAt)}

CacheGetMessages(c, id) ==
    LET r(outcome, calls) == Answer("getMessages", "cache", c, id, outcome, calls)
    IN  /\ IF FindOwnJob(jobsDb, id, c) = {}
           THEN resp' = r("NotFound", <<"job.findOne">>)
           ELSE \E l \in FindByJobIdLean(id) :
                    resp' = [r("ok", <<"job.findOne", "message.find">>) EXCEPT !.list = l]
        /\ UNCHANGED <<now, customers, extJobs, numCompanies, readOnlyVars, messages, cacheVars>>

CacheSendMessage(c, id, text) ==
    LET r(outcome, calls) ==
            [Answer("sendMessage", "cache", c, id, outcome, calls) EXCEPT !.text = text]
        newMessage == [jobId |-> id, customerId |-> c, message |-> TrimText(text),
                       senderType |-> "customer", createdAt |-> now]
    IN  /\ IF ~SendMessageSchemaOk(text)
           THEN resp' = r("Validation", <<>>) /\ UNCHANGED messages
           ELSE IF MessageIsBlank(text)
           THEN resp' = r("Validation", <<>>) /\ UNCHANGED messages
           ELSE IF FindOwnJob(jobsDb, id, c) = {}
           THEN resp' = r("NotFound", <<"job.findOne">>) /\ UNCHANGED messages
           ELSE /\ Len(messages) < MaxMessages
                /\ messages' = Append(messages, newMessage)
                /\ resp' = [r("created", <<"job.findOne", "message.create">>)
                            EXCEPT !.list = <<Len(messages) + 1>>]
        /\ UNCHANGED <<now, customers, extJobs, numCompanies, readOnlyVars, cacheVars>>

\* both message services, over jobs of several companies and customers
SendTexts == {Text(1, 0, 0), Text(0, 1, 0)}

NextSend ==
    \/ \E c \in Customers, j \in JobUuids, fail \in {"none", "guardGet"} :
          GetMessages(c, j, fail)
    \/ \E c \in Customers, j \in JobUuids, text \in SendTexts :
          \E fail \in {"none", "guardGet"} : SendMessage(c, j, text, fail)
    \/ \E c \in Customers, id \in LocalIds : CacheGetMessages(c, id)
    \/ \E c \in Customers, id \in LocalIds, text \in SendTexts : CacheSendMessage(c, id, text)
    \/ \E c \in Customers : CtlCreateJob(c, CHOOSE i \in CreateInputs : i.status = Undef, "none")
    \/ \E c \in Customers, j \in JobUuids : JobDelete(c, j, "none")

SpecSend == Init /\ [][NextSend]_vars

\* ---------------------------------------------------------------------------
\* getAllBookings as the steps the event loop interleaves: the cache lookup,
\* the await of getAllJobs, and the upserts Promise.all starts together.
\* inflight[r] holds the locals of request r.
RequestIds == 1..MaxRequests
Requests == 1..Len(inflight)

NewRequest(c) ==
    [cust |-> c, pc |-> "fetch", jobs |-> <<>>, customerJobs |-> {}, pending |-> {},
     inserting |-> {},
     saved |-> {}, failed |-> FALSE, answered |-> FALSE]

RaceUnchanged == <<now, customers, extJobs, numCompanies, extAttachments, extDeleted,
                   sessions, tokens, messages, attachments>>

\* findRecentJobs, then either the cached answer or the start of a fetch.
RaceBegin(c) ==
    LET cachedJobs == FindRecentJobs(jobsDb, c, CACHE_DURATION_MINUTES, now)
    IN  /\ Len(inflight) < MaxRequests
        /\ IF cachedJobs # {}
           THEN /\ resp' = [Answer("getAllBookings", "cache", c, 0, "ok", <<"job.find">>)
                            EXCEPT !.cached = TRUE,
                                   !.bookings = {MapJobToSummary(d) : d \in cachedJobs}]
                /\ UNCHANGED inflight
           ELSE /\ inflight' = Append(inflight, NewRequest(c))
                /\ UNCHANGED resp
        /\ UNCHANGED <<jobsDb, nextId>>
        /\ UNCHANGED RaceUnchanged

\* getAllJobs answers (or fails); matchJobsToCustomer picks the jobs to sync.
RaceFetch(r, fail) ==
    LET req == inflight[r]
        c == req.cust
    IN  /\ r \in Requests
        /\ req.pc = "fetch"
        /\ fail \in {"none", "listGet"}
        /\ IF fail = "listGet"
           THEN /\ inflight' = [inflight EXCEPT ![r].pc = "done", ![r].failed = TRUE,
                                                ![r].answered = TRUE]
                /\ resp' = Answer("getAllBookings", "cache", c, 0, "UpstreamError",
                                  <<"job.find", "GET jobs">>)
           ELSE /\ inflight' = [inflight EXCEPT
                                   ![r].pc = "sync",
                                   ![r].jobs = extJobs,
                                   ![r].customerJobs =
                                       MatchJobsToCustomer(customers[c].email,
                                                           customers[c].phone),
                                   ![r].pending =
                                       MatchJobsToCustomer(customers[c].email,
                                                           customers[c].phone)]
                /\ UNCHANGED resp
        /\ UNCHANGED <<jobsDb, nextId>>
        /\ UNCHANGED RaceUnchanged

\* findOneAndUpdate({servicem8Uuid}, {$set}, {upsert}) finds a record and
\* updates it, or finds none and goes on to insert.
RaceUpsert(r, u) ==
    LET req == inflight[r]
        jobData == JobData(u, req.jobs[u], req.cust)
        db == UpsertByServiceM8Uuid(jobsDb, nextId, u, jobData, now)
    IN  /\ r \in Requests
        /\ req.pc = "sync"
        /\ u \in req.pending
        /\ IF DocsByUuid(jobsDb, u) # {}
           THEN /\ jobsDb' = db
                /\ inflight' = [inflight EXCEPT
                                   ![r].pending = @ \ {u},
                                   ![r].saved = @ \cup DocsByUuid(db, u)]
           ELSE /\ inflight' = [inflight EXCEPT ![r].pending = @ \ {u},
                                                ![r].inserting = @ \cup {u}]
                /\ UNCHANGED jobsDb
        /\ UNCHANGED <<nextId, resp>>
        /\ UNCHANGED RaceUnchanged

\* The insert half of an upsert.  servicem8Uuid is a unique index: when another
\* request inserted the record meanwhile, the server either retries the upsert
\* as an update or rejects it with a duplicate-key error.
RaceInsert(r, u, dup) ==
    LET req == inflight[r]
        jobData == JobData(u, req.jobs[u], req.cust)
        db == UpsertByServiceM8Uuid(jobsDb, nextId, u, jobData, now)
        raced == DocsByUuid(jobsDb, u) # {}
    IN  /\ r \in Requests
        /\ u \in req.inserting
        /\ dup => raced
        /\ ~raced => nextId <= MaxDocs
        /\ IF dup
           THEN /\ inflight' = [inflight EXCEPT ![r].inserting = @ \ {u},
                                                ![r].failed = TRUE]
                /\ UNCHANGED <<jobsDb, nextId>>
           ELSE /\ jobsDb' = db
                /\ nextId' = IF raced THEN nextId ELSE nextId + 1
                /\ inflight' = [inflight EXCEPT
                                   ![r].inserting = @ \ {u},
                                   ![r].saved = @ \cup DocsByUuid(db, u)]
        /\ UNCHANGED resp
        /\ UNCHANGED RaceUnchanged

\* Promise.all settles: rejected by the first failed upsert, or fulfilled when
\* every upsert has answered.  Upserts already started keep running.
RaceFinish(r) ==
    LET req == inflight[r]
        r0(outcome) == Answer("getAllBookings", "cache", req.cust, 0, outcome,
                              <<"job.find", "GET jobs", "job.upsert">>)
    IN  /\ r \in Requests
        /\ req.pc = "sync"
        /\ ~req.answered
        /\ req.failed \/ (req.pending = {} /\ req.inserting = {})
        /\ inflight' = [inflight EXCEPT ![r].answered = TRUE]
        /\ resp' = IF req.failed
                   THEN r0("ServerError")
                   ELSE [r0("ok") EXCEPT
                            !.cached = FALSE,
                            !.bookings = {MapJobToSummary(d) : d \in req.saved}]
        /\ UNCHANGED <<jobsDb, nextId>>
        /\ UNCHANGED RaceUnchanged

NextRace ==
    \/ \E c \in Customers : RaceBegin(c)
    \/ \E r \in RequestIds, fail \in {"none", "listGet"} : RaceFetch(r, fail)
    \/ \E r \in RequestIds, u \in JobUuids : RaceUpsert(r, u)
    \/ \E r \in RequestIds, u \in JobUuids, dup \in BOOLEAN : RaceInsert(r, u, dup)
    \/ \E r \in RequestIds : RaceFinish(r)
    \/ \E job \in StaffContactJobs : StaffCreateJob(job)
    \/ \E j \in JobUuids : StaffSetStatus(j, "Scheduled")

SpecRace == InitCache /\ [][NextRace]_vars

\* ---------------------------------------------------------------------------
\* Authentication: JWTs signed with the server's secret, Session documents, and
\* the middleware in front of every protected route.
JwtExpiresInSeconds == 7 * 24 * 3600
MsPerSecond == 1000
JwtExpiresInMs == JwtExpiresInSeconds * MsPerSecond

\* A customer whose document has been removed while a token of theirs is
\* still in circulation.
RemovedCustomer == NumCustomers + 1

\* jwt.sign(payload, secret, {expiresIn}): iat and exp are in whole seconds.
GenerateToken(customerId, t) ==
    [customerId |-> customerId, iat |-> t \div MsPerSecond,
     exp |-> (t \div MsPerSecond) + JwtExpiresInSeconds, signed |-> TRUE]

\* A token the client made up or altered: the signature does not verify.
Forged(token) == [token EXCEPT !.signed = FALSE]

\* jwt.verify: signature, then expiry (expired once the clock reaches exp).
VerifyToken(token, t) == token.signed /\ (t \div MsPerSecond) < token.exp

AuthMiddlewareWithSession(token) ==
    /\ VerifyToken(token, now)
    /\ token.customerId \in DOMAIN customers
    /\ \E s \in sessions : s.token = token

\* authMiddleware: verifyToken, then Customer.findById(payload.customerId).
AuthMiddleware(token) ==
    /\ VerifyToken(token, now)
    /\ token.customerId \in DOMAIN customers

AuthAnswer(op, token, outcome) ==
    [NoResp EXCEPT !.op = op, !.gen = "auth", !.cust = token.customerId,
                   !.outcome = outcome, !.code = StatusCode(outcome), !.token = token]

AuthUnchanged == <<customers, extJobs, numCompanies, extAttachments, extDeleted, inflight,
                   messages, cacheVars>>

\* Tokens a client can present: the issued ones and altered copies of them.
Presentable == tokens \cup {Forged(t) : t \in tokens}

\* Every token that can come to exist within the bounds.
IssueTimes ==
    {l * JwtExpiresInSeconds + k : l \in 0..MaxLifetimes, k \in 0..MaxSeconds}

TokenInputs ==
    {[customerId |-> c, iat |-> t, exp |-> t + JwtExpiresInSeconds, signed |-> g] :
        c \in 1..RemovedCustomer, t \in IssueTimes, g \in BOOLEAN}

\* AuthService.login with valid credentials: sign a token, store the session.
\* Session.token is a unique index, so a second login of the same customer
\* within the same second is rejected by the insert.
Login(c) ==
    LET token == GenerateToken(c, now)
        expiresAt == now + JwtExpiresInMs
    IN  /\ Cardinality(tokens) < MaxTokens
        /\ IF \E s \in sessions : s.token = token
           THEN /\ resp' = AuthAnswer("login", token, "ServerError")
                /\ UNCHANGED <<sessions, tokens>>
           ELSE /\ sessions' = sessions \cup {[customerId |-> c, token |-> token,
                                                expiresAt |-> expiresAt]}
                /\ tokens' = tokens \cup {token}
                /\ resp' = AuthAnswer("login", token, "ok")
        /\ UNCHANGED now
        /\ UNCHANGED AuthUnchanged

\* GET /api/auth/me, standing for any protected route.
Me(token) ==
    /\ token \in Presentable
    /\ resp' = AuthAnswer("me", token, IF AuthMiddleware(token) THEN "ok"
                                       ELSE "Unauthorized")
    /\ UNCHANGED <<now, sessions, tokens>>
    /\ UNCHANGED AuthUnchanged

\* POST /api/auth/logout: authMiddleware, then sessionRepository.deleteByToken.
Logout(token) ==
    /\ token \in Presentable
    /\ IF AuthMiddleware(token)
       THEN /\ sessions' = {s \in sessions : s.token # token}
            /\ resp' = AuthAnswer("logout", token, "ok")
       ELSE /\ resp' = AuthAnswer("logout", token, "Unauthorized")
            /\ UNCHANGED sessions
    /\ UNCHANGED <<now, tokens>>
    /\ UNCHANGED AuthUnchanged

\* The TTL index on Session.expiresAt removes expired sessions.
SessionTtl ==
    /\ \E s \in sessions : s.expiresAt <= now
    /\ sessions' = {s \in sessions : s.expiresAt > now}
    /\ UNCHANGED <<now, tokens, resp>>
    /\ UNCHANGED AuthUnchanged

TickSecond ==
    /\ (now % JwtExpiresInMs) \div MsPerSecond < MaxSeconds
    /\ now' = now + MsPerSecond
    /\ UNCHANGED <<sessions, tokens, resp>>
    /\ UNCHANGED AuthUnchanged

TickLifetime ==
    /\ now \div JwtExpiresInMs < MaxLifetimes
    /\ now' = now + JwtExpiresInMs
    /\ UNCHANGED <<sessions, tokens, resp>>
    /\ UNCHANGED AuthUnchanged

InitAuth ==
    /\ now = 0
    /\ customers = [c \in Customers |->
                        IF c = 1 THEN CustomerDoc(1, Email("a@x", FALSE, FALSE), NoPhone)
                        ELSE CustomerDoc(c, NoEmail, <<"0", "4", "1">>)]
    /\ extJobs = <<>>
    /\ numCompanies = NumCustomers
    /\ extAttachments = [j \in JobUuids |-> {}]
    /\ extDeleted = {}
    /\ inflight = <<>>
    /\ sessions = {}
    /\ tokens = {GenerateToken(RemovedCustomer, 0)}
    /\ messages = <<>>
    /\ jobsDb = {}
    /\ nextId = 1
    /\ attachments = {}
    /\ resp = NoResp

NextAuth ==
    \/ \E c \in Customers : Login(c)
    \/ \E t \in TokenInputs : Me(t)
    \/ \E t \in TokenInputs : Logout(t)
    \/ SessionTtl
    \/ TickSecond
    \/ TickLifetime

SpecAuth == InitAuth /\ [][NextAuth]_vars

\* ---------------------------------------------------------------------------
\* getBookingById as the steps the event loop interleaves: the job lookup and
\* refresh, the cached-attachment lookup with the fetch on a miss, and the
\* upserts Promise.all starts together.  inflight[r] holds request r's locals.
DetailUnchanged == <<now, customers, extJobs, numCompanies, extAttachments, extDeleted,
                     sessions, tokens, messages, nextId>>

\* Job lookup for the customer, refresh from ServiceM8, save.
DetailBegin(c, id) ==
    LET found == FindOwnJob(jobsDb, id, c)
        job == CHOOSE d \in found : TRUE
        refreshed == IF JobExists(job.servicem8Uuid)
                     THEN RefreshJob(job, extJobs[job.servicem8Uuid], now)
                     ELSE job
    IN  /\ Len(inflight) < MaxRequests
        /\ IF found = {}
           THEN /\ resp' = Answer("getBookingById", "cache", c, id, "NotFound",
                                  <<"job.findOne">>)
                /\ UNCHANGED <<jobsDb, inflight>>
           ELSE /\ jobsDb' = (jobsDb \ {job}) \cup {refreshed}
                /\ inflight' = Append(inflight,
                                      [cust |-> c, id |-> id, uuid |-> job.servicem8Uuid,
                                       pc |-> "find", pending |-> {}, inserting |-> {}])
                /\ UNCHANGED resp
        /\ UNCHANGED attachments
        /\ UNCHANGED DetailUnchanged

\* attachmentRepository.findByJobId; on a miss, getJobAttachments in ServiceM8.
DetailFind(r) ==
    LET req == inflight[r]
        cachedAttachments == {a \in attachments : a.jobId = req.id}
    IN  /\ r \in Requests
        /\ req.pc = "find"
        /\ inflight' = [inflight EXCEPT
                           ![r].pc = "upsert",
                           ![r].pending = IF cachedAttachments # {} THEN {}
                                          ELSE extAttachments[req.uuid]]
        /\ UNCHANGED <<jobsDb, attachments, resp>>
        /\ UNCHANGED DetailUnchanged

\* findOneAndUpdate({servicem8Uuid}, ..., {upsert}) finds a record and updates
\* it, or finds none and goes on to insert.
DetailUpsert(r, a) ==
    LET req == inflight[r]
    IN  /\ r \in Requests
        /\ req.pc = "upsert"
        /\ a \in req.pending
        /\ IF \E d \in attachments : d.servicem8Uuid = a
           THEN /\ attachments' = UpsertAttachment(attachments, req.id, a)
                /\ inflight' = [inflight EXCEPT ![r].pending = @ \ {a}]
           ELSE /\ inflight' = [inflight EXCEPT ![r].pending = @ \ {a},
                                                ![r].inserting = @ \cup {a}]
                /\ UNCHANGED attachments
        /\ UNCHANGED <<jobsDb, resp>>
        /\ UNCHANGED DetailUnchanged

\* The insert half of an upsert.  attachmentSchema declares no unique index on
\* servicem8Uuid, so nothing rejects the insert when another request has
\* inserted the same attachment meanwhile.
DetailInsert(r, a) ==
    LET req == inflight[r]
    IN  /\ r \in Requests
        /\ a \in req.inserting
        /\ attachments' = attachments \cup {[_id |-> Cardinality(attachments) + 1,
                                             servicem8Uuid |-> a, jobId |-> req.id]}
        /\ inflight' = [inflight EXCEPT ![r].inserting = @ \ {a}]
        /\ UNCHANGED <<jobsDb, resp>>
        /\ UNCHANGED DetailUnchanged

\* Every upsert has answered: the detail response is sent.
DetailFinish(r) ==
    LET req == inflight[r]
        job == CHOOSE d \in jobsDb : d._id = req.id
    IN  /\ r \in Requests
        /\ req.pc = "upsert"
        /\ req.pending = {}
        /\ req.inserting = {}
        /\ inflight' = [inflight EXCEPT ![r].pc = "done"]
        /\ resp' = [Answer("getBookingById", "cache", req.cust, req.id, "ok",
                           <<"job.findOne", "GET job", "attachment.find">>)
                    EXCEPT !.job = MapJobToSummary(job)]
        /\ UNCHANGED <<jobsDb, attachments>>
        /\ UNCHANGED DetailUnchanged

NextAttach ==
    \/ \E c \in Customers, id \in LocalIds : DetailBegin(c, id)
    \/ \E r \in RequestIds : DetailFind(r)
    \/ \E r \in RequestIds, a \in 1..MaxAttachments : DetailUpsert(r, a)
    \/ \E r \in RequestIds, a \in 1..MaxAttachments : DetailInsert(r, a)
    \/ \E r \in RequestIds : DetailFinish(r)
    \/ \E c \in Customers :
          CtlCreateJob(c, CHOOSE i \in CreateInputs : i.status = Undef, "none")
    \/ \E j \in JobUuids, a \in 1..MaxAttachments : StaffAddAttachment(j, a)

SpecAttach == InitCache /\ [][NextAttach]_vars

\* The booking list together with the requests that touch single records.
NextList ==
    \/ \E c \in Customers : GetAllBookings(c, "none")
    \/ \E c \in Customers, id \in LocalIds : GetBookingById(c, id, "none")
    \/ \E c \in Customers :
          CtlCreateJob(c, CHOOSE i \in CreateInputs : i.status = Undef, "none")
    \/ TickMs
    \/ TickWindow

SpecList == InitCache /\ [][NextList]_vars

\* ---------------------------------------------------------------------------
\* updateJob and deleteJob of the externally-sourced generation as the steps
\* the event loop interleaves: the guard's lookup, then inside
\* ServiceM8Service.updateJob the read of the existing job, the POST of the
\* merged record and the final read.  inflight[r] holds request r's locals.
WriteUnchanged == <<now, customers, numCompanies, extAttachments, extDeleted, sessions,
                    tokens, messages, cacheVars>>

WriteOps == {"updateJob", "deleteJob"}

\* The fields the operation hands to ServiceM8Service.updateJob.
WriteJobData(op, input) == IF op = "deleteJob" THEN [active |-> 0] ELSE UpdateData(input)

\* getJobByUuid and the ownership guard.
WriteBegin(op, c, j, input) ==
    LET g == GuardOutcome(j, customers[c])
    IN  /\ op \in WriteOps
        /\ op = "deleteJob" => input = NoInput
        /\ Len(inflight) < MaxRequests
        /\ IF g # "pass"
           THEN /\ resp' = [WithLooked(Answer(op, "ext", c, j, g, <<"GET job">>), j)
                            EXCEPT !.input = input]
                /\ UNCHANGED inflight
           ELSE /\ inflight' = Append(inflight,
                                      [op |-> op, cust |-> c, j |-> j, input |-> input,
                                       pc |-> "read", existingJob |-> extJobs[j]])
                /\ UNCHANGED resp
        /\ UNCHANGED extJobs
        /\ UNCHANGED WriteUnchanged

\* const existingJob = await this.getJobByUuid(uuid)
WriteRead(r) ==
    /\ r \in Requests
    /\ inflight[r].pc = "read"
    /\ inflight' = [inflight EXCEPT ![r].pc = "post",
                                    ![r].existingJob = extJobs[inflight[r].j]]
    /\ UNCHANGED <<extJobs, resp>>
    /\ UNCHANGED WriteUnchanged

\* POST of {...existingJob, ...jobData, uuid, active}.
WritePost(r) ==
    LET req == inflight[r]
        merged == MergeUpdate(req.existingJob, WriteJobData(req.op, req.input))
    IN  /\ r \in Requests
        /\ req.pc = "post"
        /\ extJobs' = [extJobs EXCEPT ![req.j] = ExtPostJob(@, merged)]
        /\ inflight' = [inflight EXCEPT ![r].pc = "final"]
        /\ UNCHANGED resp
        /\ UNCHANGED WriteUnchanged

\* The final getJobByUuid, and the answer to the caller.
WriteFinish(r) ==
    LET req == inflight[r]
        a == [WithLooked(Answer(req.op, "ext", req.cust, req.j, "ok",
                                <<"GET job", "GET job", "POST job", "GET job">>), req.j)
              EXCEPT !.input = req.input]
    IN  /\ r \in Requests
        /\ req.pc = "final"
        /\ inflight' = [inflight EXCEPT ![r].pc = "done"]
        /\ resp' = IF req.op = "updateJob"
                   THEN [a EXCEPT !.job = MapServiceM8JobToResult(req.j, extJobs[req.j])]
                   ELSE a
        /\ UNCHANGED extJobs
        /\ UNCHANGED WriteUnchanged

NextWrite ==
    \/ \E c \in Customers :
          JobCreate(c, CHOOSE i \in CreateInputs : i.status = Undef, "none")
    \/ \E c \in Customers, j \in JobUuids, input \in UpdateInputs :
          WriteBegin("updateJob", c, j, input)
    \/ \E c \in Customers, j \in JobUuids : WriteBegin("deleteJob", c, j, NoInput)
    \/ \E r \in RequestIds : WriteRead(r)
    \/ \E r \in RequestIds : WritePost(r)
    \/ \E r \in RequestIds : WriteFinish(r)

SpecWrite == Init /\ [][NextWrite]_vars

\* ---------------------------------------------------------------------------
\* JobService.createJob as the steps the event loop interleaves.  Every
\* request works on the customer document its own authMiddleware loaded;
\* inflight[r].companyUuid is the request's local companyUuid.  Every
\* ServiceM8 call answers here (JobCreate has the failures).
CreateUnchanged == <<now, extAttachments, extDeleted, sessions, tokens, messages, cacheVars>>

\* let companyUuid = customer.servicem8ClientUuid; if (!companyUuid) ...
CreateBegin(c, input) ==
    LET uuid == customers[c].servicem8ClientUuid
    IN  /\ Len(inflight) < MaxRequests
        /\ inflight' = Append(inflight,
                              [op |-> "createJob", cust |-> c, input |-> input,
                               pc |-> IF uuid = NoUuid THEN "company" ELSE "job",
                               companyUuid |-> uuid, createdCompany |-> FALSE,
                               jobUuid |-> NoUuid])
        /\ UNCHANGED <<customers, extJobs, numCompanies, resp>>
        /\ UNCHANGED CreateUnchanged

\* const company = await servicem8Service.createCompany(...)
CreateCompany(r) ==
    /\ r \in Requests
    /\ inflight[r].pc = "company"
    /\ numCompanies < MaxCompanies
    /\ numCompanies' = numCompanies + 1
    /\ inflight' = [inflight EXCEPT ![r].pc = "save",
                                    ![r].companyUuid = numCompanies + 1,
                                    ![r].createdCompany = TRUE]
    /\ UNCHANGED <<customers, extJobs, resp>>
    /\ UNCHANGED CreateUnchanged

\* customer.servicem8ClientUuid = companyUuid; await customer.save()
CreateSave(r) ==
    /\ r \in Requests
    /\ inflight[r].pc = "save"
    /\ customers' = [customers EXCEPT
                        ![inflight[r].cust].servicem8ClientUuid = inflight[r].companyUuid]
    /\ inflight' = [inflight EXCEPT ![r].pc = "job"]
    /\ UNCHANGED <<extJobs, numCompanies, resp>>
    /\ UNCHANGED CreateUnchanged

\* servicem8Service.createJob({..., company_uuid: companyUuid}) and the answer
CreateJobStep(r) ==
    LET req == inflight[r]
        newJob == ExtNewJob(CreateJobPayload(
                      [job_address |-> req.input.job_address,
                       job_description |-> req.input.job_description,
                       scheduled_date |-> req.input.scheduled_date,
                       status |-> DefaultStatus(req.input.status),
                       company_uuid |-> req.companyUuid]))
        newUuid == Len(extJobs) + 1
    IN  /\ r \in Requests
        /\ req.pc = "job"
        /\ Len(extJobs) < MaxJobs
        /\ extJobs' = Append(extJobs, newJob)
        /\ inflight' = [inflight EXCEPT ![r].pc = "done", ![r].jobUuid = newUuid]
        /\ resp' = [Answer("createJob", "ext", req.cust, 0, "created",
                           (IF req.createdCompany
                            THEN <<"POST company", "GET company", "customer.save">>
                            ELSE <<>>) \o <<"POST job", "GET job">>)
                    EXCEPT !.input = req.input,
                           !.job = MapServiceM8JobToResult(newUuid, newJob),
                           !.jobUuid = newUuid]
        /\ UNCHANGED <<customers, numCompanies>>
        /\ UNCHANGED CreateUnchanged

\* Customer 1 registered with company 1; customer 2 has no company yet.
InitCreate ==
    /\ now = 0
    /\ customers \in {cs \in InitCustomers : cs[2].servicem8ClientUuid = NoUuid}
    /\ extJobs = <<>>
    /\ numCompanies = 1
    /\ messages = <<>>
    /\ extAttachments = [j \in JobUuids |-> {}]
    /\ extDeleted = {}
    /\ inflight = <<>>
    /\ sessions = {}
    /\ tokens = {}
    /\ jobsDb = {}
    /\ nextId = 1
    /\ attachments = {}
    /\ resp = NoResp

NextCreate ==
    \/ \E c \in Customers, input \in CreateInputs : CreateBegin(c, input)
    \/ \E r \in RequestIds : CreateCompany(r)
    \/ \E r \in RequestIds : CreateSave(r)
    \/ \E r \in RequestIds : CreateJobStep(r)

SpecCreate == InitCreate /\ [][NextCreate]_vars

\* ---------------------------------------------------------------------------
\* AuthService.register.  In this specification customers is the customer
\* collection itself: the sequence of the stored documents, in insertion
\* order.  A phone of the request is its text without the surrounding
\* whitespace (core, "" for an all-whitespace text) and whether it had any.
RegPhone(core, padded) == [core |-> core, padded |-> padded]

NoRegPhone == RegPhone(Undef, FALSE)

\* phone?.trim()
TrimPhone(p) == p.core

\* Request bodies that pass registerSchema (an email has no whitespace, a
\* phone has at least ten characters, one of the two is present); the
\* password always passes and is left out.
RegisterInputs ==
    {[email |-> e, phone |-> p] :
        e \in {NoEmail, Email("a@x", FALSE, FALSE), Email("a@x", TRUE, FALSE),
               Email("b@x", FALSE, FALSE)},
        p \in {NoRegPhone, RegPhone("0400000001", FALSE), RegPhone("0400000001", TRUE),
               RegPhone("", TRUE)}}
    \ {[email |-> NoEmail, phone |-> NoRegPhone]}

\* CustomerRepository.findByEmailOrPhone: only the truthy arguments are asked for.
FindByEmailOrPhone(store, email, phone) ==
    {i \in DOMAIN store :
        \/ email # NoEmail /\ store[i].email = NormalizeEmail(email)
        \/ Truthy(phone) /\ store[i].phone = phone}

\* The unique sparse indexes on email and phone: an insert is refused when a
\* stored document has the same email, or the same phone, and the field is set.
UniqueIndexAllowsAll(store, doc) == TRUE

UniqueIndexAllows(store, doc) ==
    \A i \in DOMAIN store :
        /\ doc.email # NoEmail => store[i].email # doc.email
        /\ doc.phone # Undef => store[i].phone # doc.phone

RegAnswer(input, c, outcome, calls) ==
    [NoResp EXCEPT !.op = "register", !.gen = "auth", !.cust = c, !.outcome = outcome,
                   !.code = StatusCode(outcome), !.calls = calls, !.input = input]

RegUnchanged == <<now, extJobs, extAttachments, extDeleted, messages, cacheVars>>

\* Normalisation, the two checks and the lookup of an existing customer.
RegBegin(input) ==
    LET normalizedEmail == NormalizeEmail(input.email)
        normalizedPhone == TrimPhone(input.phone)
    IN  /\ Len(inflight) < MaxRequests
        /\ IF normalizedEmail = NoEmail /\ ~Truthy(normalizedPhone)
           THEN /\ resp' = RegAnswer(input, 0, "Validation", <<>>)
                /\ UNCHANGED inflight
           ELSE IF FindByEmailOrPhone(customers, normalizedEmail, normalizedPhone) # {}
           THEN /\ resp' = RegAnswer(input, 0, "Conflict", <<"customer.findOne">>)
                /\ UNCHANGED inflight
           ELSE /\ inflight' = Append(inflight,
                                      [op |-> "register", input |-> input,
                                       email |-> normalizedEmail, phone |-> normalizedPhone,
                                       pc |-> "company", servicem8ClientUuid |-> NoUuid,
                                       customerId |-> 0])
                /\ UNCHANGED resp
        /\ UNCHANGED <<customers, numCompanies, sessions, tokens>>
        /\ UNCHANGED RegUnchanged

\* servicem8Service.createCompany; its failure ends the registration.
RegCompany(r, fail) ==
    /\ r \in Requests
    /\ inflight[r].pc = "company"
    /\ fail \in {"none", "companyPost"}
    /\ IF fail = "companyPost"
       THEN /\ inflight' = [inflight EXCEPT ![r].pc = "done"]
            /\ resp' = RegAnswer(inflight[r].input, 0, "ServerError",
                                 <<"customer.findOne", "POST company">>)
            /\ UNCHANGED numCompanies
       ELSE /\ numCompanies < MaxCompanies
            /\ numCompanies' = numCompanies + 1
            /\ inflight' = [inflight EXCEPT ![r].pc = "create",
                                            ![r].servicem8ClientUuid = numCompanies + 1]
            /\ UNCHANGED resp
    /\ UNCHANGED <<customers, sessions, tokens>>
    /\ UNCHANGED RegUnchanged

\* customerRepository.create: the insert, refused by a unique index with a
\* duplicate key error that errorHandler answers with 409.
RegCreate(r) ==
    LET req == inflight[r]
        doc == [_id |-> Len(customers) + 1, email |-> req.email, phone |-> req.phone,
                servicem8ClientUuid |-> req.servicem8ClientUuid]
    IN  /\ r \in Requests
        /\ req.pc = "create"
        /\ IF UniqueIndexAllows(customers, doc)
           THEN /\ Len(customers) < NumCustomers
                /\ customers' = Append(customers, doc)
                /\ inflight' = [inflight EXCEPT ![r].pc = "session",
                                                ![r].customerId = doc._id]
                /\ UNCHANGED resp
           ELSE /\ inflight' = [inflight EXCEPT ![r].pc = "done"]
                /\ resp' = RegAnswer(req.input, 0, "DuplicateKey",
                                     <<"customer.findOne", "POST company", "customer.create">>)
                /\ UNCHANGED customers
        /\ UNCHANGED <<numCompanies, sessions, tokens>>
        /\ UNCHANGED RegUnchanged

\* JWTUtils.generateToken, sessionRepository.createSession and the answer.
RegSession(r) ==
    LET req == inflight[r]
        token == GenerateToken(req.customerId, now)
    IN  /\ r \in Requests
        /\ req.pc = "session"
        /\ sessions' = sessions \cup {[customerId |-> req.customerId, token |-> token,
                                       expiresAt |-> now + JwtExpiresInMs]}
        /\ tokens' = tokens \cup {token}
        /\ inflight' = [inflight EXCEPT ![r].pc = "done"]
        /\ resp' = [RegAnswer(req.input, req.customerId, "created",
                              <<"customer.findOne", "POST company", "customer.create",
                                "session.create">>)
                    EXCEPT !.token = token]
        /\ UNCHANGED <<customers, numCompanies>>
        /\ UNCHANGED RegUnchanged

\* An empty customer collection.
InitReg ==
    /\ now = 0
    /\ customers = <<>>
    /\ extJobs = <<>>
    /\ numCompanies = 0
    /\ messages = <<>>
    /\ extAttachments = [j \in JobUuids |-> {}]
    /\ extDeleted = {}
    /\ inflight = <<>>
    /\ sessions = {}
    /\ tokens = {}
    /\ jobsDb = {}
    /\ nextId = 1
    /\ attachments = {}
    /\ resp = NoResp

NextReg ==
    \/ \E input \in RegisterInputs : RegBegin(input)
    \/ \E r \in RequestIds, fail \in {"none", "companyPost"} : RegCompany(r, fail)
    \/ \E r \in RequestIds : RegCreate(r)
    \/ \E r \in RequestIds : RegSession(r)

SpecReg == InitReg /\ [][NextReg]_vars

\* The job routes of the controller generation with every failure they handle.
NextJobs ==
    \/ \E c \in Customers, input \in CreateInputs,
          fail \in {"none", "jobPost", "jobGet", "localWrite"} :
          CtlCreateJob(c, input, fail)
    \/ \E c \in Customers, id \in LocalIds, input \in UpdateInputs,
          fail \in {"none", "post", "localWrite"} :
          CtlUpdateJob(c, id, input, fail)
    \/ \E c \in Customers, id \in LocalIds : CtlDeleteJob(c, id, "none")

SpecJobs == InitCache /\ [][NextJobs]_vars

(***************************************************************************)
(* Properties of the ownership guard.                                      *)
(***************************************************************************)
GuardedOps == {"updateJob", "deleteJob", "getMessages", "sendMessage"}

\* the last request was a guarded one whose lookup of the job was answered
GuardLooked(r) == r.gen = "ext" /\ r.op \in GuardedOps /\ r.looked \in {"found", "absent"}

\* the request went on after its guard lookup
Proceeded(r) == Len(r.calls) > 1

Touches(r) ==
    \E i \in 1..Len(r.calls) : r.calls[i] \in {"POST job", "message.find", "message.create"}

\* a step that answers a new guarded request
GuardedStep == resp' # resp /\ resp'.latest /\ GuardLooked(resp')

\* C1: for an existing, active job whose lookup answered, updateJob, deleteJob,
\* getMessages and sendMessage go on past the ownership guard exactly when the
\* job's company_uuid equals the customer's servicem8ClientUuid; on a mismatch
\* the request ends in ForbiddenError (403), posts nothing to ServiceM8 and
\* neither reads nor writes messages.
C1_OwnershipGuard ==
    /\ [](GuardLooked(resp) /\ resp.looked = "found" /\ resp.lookedActive # 0
            => /\ Proceeded(resp) <=> resp.lookedCompany = resp.custCompany
               /\ Proceeded(resp) => Touches(resp)
               /\ resp.lookedCompany # resp.custCompany
                      => /\ resp.outcome = "Forbidden"
                         /\ resp.code = 403
                         /\ ~Touches(resp))
    /\ [][GuardedStep /\ resp'.outcome = "Forbidden"
            => UNCHANGED <<extJobs, messages>>]_vars

\* a customer was refused on another company's active job
C1_Witness ==
    /\ resp.op \in {"updateJob", "deleteJob", "getMessages", "sendMessage"}
    /\ resp.looked = "found"
    /\ resp.lookedActive = 1
    /\ resp.lookedCompany # resp.custCompany
    /\ resp.outcome = "Forbidden"

\* C2: in updateJob, deleteJob, getMessages and sendMessage a job that ServiceM8
\* reports absent, or whose active flag is 0, ends in NotFoundError (404) whether
\* or not its company_uuid equals the customer's: ForbiddenError is never the
\* answer for an absent or inactive job, and nothing is written.
C2_AbsentOrInactiveIsNotFound ==
    /\ [](GuardLooked(resp) /\ (resp.looked = "absent" \/ resp.lookedActive = 0)
            => /\ resp.outcome = "NotFound"
               /\ resp.code = 404
               /\ ~Touches(resp))
    /\ [][GuardedStep /\ resp'.outcome = "NotFound"
            => UNCHANGED <<extJobs, messages>>]_vars

\* an inactive job of another company was answered with NotFound
C2_Witness ==
    /\ resp.op \in {"updateJob", "deleteJob", "getMessages", "sendMessage"}
    /\ resp.looked = "found"
    /\ resp.lookedActive = 0
    /\ resp.lookedCompany # resp.custCompany
    /\ resp.outcome = "NotFound"

(***************************************************************************)
(* Properties of the booking endpoints over the local Job collection.      *)
(***************************************************************************)
\* C3: a booking-detail request for an existing job whose company differs from
\* the requesting customer's company ends in Forbidden (403), not in the
\* NotFound (404) of a job that does not exist.
C3_OtherCompanyIsForbidden ==
    (/\ resp.op = "getBookingById"
     /\ resp.looked = "found"
     /\ resp.lookedCompany # resp.custCompany)
    => resp.outcome = "Forbidden" /\ resp.code = 403

\* a step that answers getAllBookings
GetAllBookingsStep ==
    /\ resp' # resp \/ jobsDb' # jobsDb
    /\ resp'.latest
    /\ resp'.op = "getAllBookings"

\* the customer has a record updated at most five minutes ago
HasFreshRecord(c) ==
    \E d \in jobsDb : d.customerId = c /\ now - d.updatedAt <= 5 * 60 * 1000

Called(r, call) == \E i \in 1..Len(r.calls) : r.calls[i] = call

\* C4: getAllBookings answers from the cache, with cached = true and without
\* asking ServiceM8 for the job list, when a record of the customer was updated
\* within the last 5 minutes; when all of the customer's records are older, or
\* there is none, it fetches the job list, upserts the matched jobs and returns
\* them with cached = false.
C4_FreshnessWindow ==
    [][GetAllBookingsStep =>
          LET c == resp'.cust
              matched == MatchJobsToCustomer(customers[c].email, customers[c].phone)
          IN  IF HasFreshRecord(c)
              THEN /\ resp'.outcome = "ok"
                   /\ resp'.cached
                   /\ ~Called(resp', "GET jobs")
                   /\ resp'.bookings # {}
                   /\ \A b \in resp'.bookings :
                         \E d \in jobsDb : d._id = b.id /\ d.customerId = c
                   /\ UNCHANGED jobsDb
              ELSE /\ Called(resp', "GET jobs")
                   /\ resp'.outcome = "ok" =>
                         /\ ~resp'.cached
                         /\ \A u \in matched :
                               \E d \in jobsDb' :
                                  /\ d.servicem8Uuid = u
                                  /\ d.customerId = c
                                  /\ d.updatedAt = now
                                  /\ d.status = extJobs[u].status
                         /\ {b.servicem8Uuid : b \in resp'.bookings} = matched]_vars

\* the list was fetched again once the customer's records were older than 5 minutes
C4_Witness ==
    /\ resp.op = "getAllBookings"
    /\ resp.outcome = "ok"
    /\ ~resp.cached
    /\ resp.bookings # {}
    /\ now > 5 * 60 * 1000
    /\ \E d \in jobsDb :
          d.customerId = resp.cust /\ d.createdAt = 0 /\ d.updatedAt = now

\* the fields of a record that the upsert sets
DataOf(d) == [f \in DOMAIN d \ {"_id", "createdAt", "updatedAt"} |-> d[f]]

\* C5: upserting a ServiceM8 job that the cache already holds with identical
\* data leaves exactly one record with that servicem8Uuid, and that record has
\* the same servicem8Uuid, _id, createdAt and field values as before.
C5_UpsertIdempotent ==
    [][jobsDb' # jobsDb /\ resp'.op = "getAllBookings" =>
          LET c == resp'.cust
              matched == MatchJobsToCustomer(customers[c].email, customers[c].phone)
          IN  \A d \in jobsDb :
                 (/\ d.servicem8Uuid \in matched
                  /\ DataOf(d) = JobData(d.servicem8Uuid, extJobs[d.servicem8Uuid], c))
                 => /\ Cardinality({e \in jobsDb' : e.servicem8Uuid = d.servicem8Uuid}) = 1
                    /\ \E e \in jobsDb' :
                          /\ e.servicem8Uuid = d.servicem8Uuid
                          /\ e._id = d._id
                          /\ e.createdAt = d.createdAt
                          /\ DataOf(e) = DataOf(d)]_vars

\* a record was upserted a second time with the data it already had
C5_Witness ==
    /\ resp.op = "getAllBookings"
    /\ ~resp.cached
    /\ resp.outcome = "ok"
    /\ resp.latest
    /\ \E d \in jobsDb :
          /\ d.customerId = resp.cust
          /\ d.createdAt < d.updatedAt
          /\ d.updatedAt = now
          /\ d.status = "Quote"

C7_PersistOrder ==
    (resp.op = "getMessages" /\ resp.outcome = "ok")
    => \A a, b \in 1..Len(resp.list) : a < b => resp.list[a] < resp.list[b]

\* C8: a posted message is accepted and persisted only if it is not empty after
\* trimming and at most 1000 characters long: 1000 characters pass, 1001 are
\* rejected, empty and whitespace-only texts are rejected; a rejection is a
\* validation error (400) and persists nothing.
C8_MessageValidation ==
    /\ [](resp.op = "sendMessage" =>
            /\ resp.outcome = "Validation" <=>
                   (resp.text.core = 0 \/ TextLen(resp.text) > 1000)
            /\ resp.outcome = "Validation" => resp.code = 400 /\ resp.calls = <<>>
            /\ resp.outcome = "created" =>
                   /\ messages[resp.list[1]].message = Text(0, resp.text.core, 0)
                   /\ messages[resp.list[1]].jobUuid = resp.jobUuid)
    /\ [][resp' # resp /\ resp'.latest /\ resp'.op = "sendMessage"
              /\ resp'.outcome = "Validation"
            => UNCHANGED messages]_vars

\* a message of exactly 1000 characters was persisted
C8_Witness ==
    /\ resp.op = "sendMessage"
    /\ resp.outcome = "created"
    /\ TextLen(resp.text) = 1000
    /\ Len(messages) > 0

(***************************************************************************)
(* Properties of JobService.                                               *)
(***************************************************************************)
\* C9: createJob for a customer without a company id creates the company in
\* ServiceM8 first, stores the returned id on the customer and only then posts
\* the job with that id as company_uuid; without a status the job is a 'Quote',
\* and the result's address is the input's job_address.
C9_CompanyBeforeJob ==
    (resp.op = "createJob" /\ resp.gen = "ext" /\ resp.custCompany = NoUuid)
    => /\ \A i \in 1..Len(resp.calls) :
             resp.calls[i] = "POST job" =>
                \E a, b \in 1..Len(resp.calls) :
                   /\ a < b /\ b < i
                   /\ resp.calls[a] = "POST company"
                   /\ resp.calls[b] = "customer.save"
       /\ Called(resp, "customer.save") => customers[resp.cust].servicem8ClientUuid # NoUuid
       /\ resp.outcome = "created" =>
             /\ Called(resp, "POST job")
             /\ extJobs[resp.jobUuid].company_uuid = customers[resp.cust].servicem8ClientUuid
             /\ resp.input.status = Undef =>
                   extJobs[resp.jobUuid].status = "Quote" /\ resp.job.status = "Quote"
             /\ resp.job.address = resp.input.job_address

\* a customer without a company id got a job created
C9_Witness ==
    /\ resp.op = "createJob"
    /\ resp.gen = "ext"
    /\ resp.custCompany = NoUuid
    /\ resp.outcome = "created"
    /\ resp.input.status = Undef

\* C10: deleteJob on a job the customer owns reports success although the
\* ServiceM8 call that cancels or deactivates the job throws.
C10_DeleteSucceedsWhenExternalFails ==
    (/\ resp.op = "deleteJob"
     /\ resp.looked = "found"
     /\ resp.lookedActive = 1
     /\ resp.lookedCompany = resp.custCompany)
    => resp.outcome = "ok"

\* C11: the message store changes only by a sendMessage that passed the job
\* check of its own request: the new message is a customer message of the
\* requesting customer for the requested job, and before the request that job
\* existed, was active and belonged to the customer's company (or, in the
\* caching generation, was a Job record of that customer).  A sendMessage ending
\* in NotFound, Forbidden or a validation error leaves the store unchanged, and
\* no request reads or writes messages before its job lookup.
C11_JobCheckBeforeMessages ==
    /\ [][messages' # messages =>
            LET m == messages'[Len(messages')]
            IN  /\ messages' = Append(messages, m)
                /\ resp'.op = "sendMessage"
                /\ resp'.outcome = "created"
                /\ m.senderType = "customer"
                /\ m.customerId = resp'.cust
                /\ IF resp'.gen = "ext"
                   THEN /\ m.jobUuid = resp'.jobUuid
                        /\ m.jobUuid \in 1..Len(extJobs)
                        /\ extJobs[m.jobUuid].active # 0
                        /\ extJobs[m.jobUuid].company_uuid =
                               customers[m.customerId].servicem8ClientUuid
                   ELSE /\ m.jobId = resp'.jobUuid
                        /\ \E d \in jobsDb : d._id = m.jobId /\ d.customerId = m.customerId]_vars
    /\ [](resp.op \in {"getMessages", "sendMessage"} =>
            /\ resp.outcome \in {"NotFound", "Forbidden", "Validation"} => ~Touches(resp)
            /\ \A i \in 1..Len(resp.calls) :
                  resp.calls[i] \in {"message.find", "message.create"} =>
                     i > 1 /\ resp.calls[1] \in {"GET job", "job.findOne"})

\* a refused sendMessage left a store that holds a message
C11_Witness ==
    /\ resp.op = "sendMessage"
    /\ resp.outcome \in {"NotFound", "Forbidden"}
    /\ Len(messages) > 0

\* C12: a successful getBookingById returns the status, address, description
\* and scheduled date that ServiceM8 returned for the job in that request, and
\* the job's cache record holds those values.
C12_DetailIsRefreshed ==
    (resp.op = "getBookingById" /\ resp.outcome = "ok" /\ resp.latest)
    => LET u == resp.job.servicem8Uuid
       IN  /\ JobExists(u)
           /\ resp.job.status = extJobs[u].status
           /\ resp.job.address = extJobs[u].job_address
           /\ resp.job.description = extJobs[u].job_description
           /\ resp.job.scheduledDate = extJobs[u].scheduled_date
           /\ \E d \in jobsDb :
                 /\ d._id = resp.job.id
                 /\ d.status = extJobs[u].status
                 /\ d.jobAddress = extJobs[u].job_address
                 /\ d.jobDescription = extJobs[u].job_description
                 /\ d.scheduledDate = extJobs[u].scheduled_date

\* C13: in the controller generation's createJob and updateJob, when the write
\* to ServiceM8 has succeeded and the following write of the local Job record
\* fails, the caller is still told the operation succeeded.
LocalWriteReached ==
    /\ resp.gen = "cache"
    /\ \/ resp.op = "createJob" /\ Called(resp, "job.create")
       \/ resp.op = "updateJob" /\ Called(resp, "job.save")

LocalRecordNotWritten ==
    IF resp.op = "createJob"
    THEN ~\E d \in jobsDb : d.servicem8Uuid = Len(extJobs)
    ELSE \E d \in jobsDb :
            /\ d._id = resp.jobUuid
            /\ \/ d.status # extJobs[d.servicem8Uuid].status
               \/ d.jobAddress # extJobs[d.servicem8Uuid].job_address
               \/ d.jobDescription # extJobs[d.servicem8Uuid].job_description

C13_LocalFailureReportsSuccess ==
    (LocalWriteReached /\ LocalRecordNotWritten) => resp.outcome \in {"created", "ok"}

\* C14: a successful updateJob changes, in the ServiceM8 job, exactly the fields
\* its input supplies; every other field of that job (company_uuid and active
\* included) and every other job keeps the value it had before the call.
Supplied(input, f) == f \in DOMAIN input /\ Truthy(input[f])

C14_UpdateKeepsOmittedFields ==
    [][(resp' # resp /\ resp'.latest /\ resp'.op = "updateJob"
            /\ resp'.gen = "ext" /\ resp'.outcome = "ok")
       => LET j == resp'.jobUuid
          IN  /\ Len(extJobs') = Len(extJobs)
              /\ \A k \in 1..Len(extJobs) : k # j => extJobs'[k] = extJobs[k]
              /\ \A f \in JobFields :
                    extJobs'[j][f] = IF Supplied(resp'.input, f)
                                     THEN resp'.input[f]
                                     ELSE extJobs[j][f]]_vars

C14_Witness ==
    /\ resp.op = "updateJob"
    /\ resp.gen = "ext"
    /\ resp.outcome = "ok"
    /\ Supplied(resp.input, "job_address")
    /\ ~Supplied(resp.input, "status")
    /\ extJobs[resp.jobUuid].job_address = resp.input.job_address
    /\ Truthy(extJobs[resp.jobUuid].job_description)
    /\ Truthy(extJobs[resp.jobUuid].status)
    /\ extJobs[resp.jobUuid].company_uuid # NoUuid

\* C15: when two getAllBookings requests of one customer both miss the cache and
\* run concurrently, then however their fetches and upserts interleave the job
\* cache never holds two records for one ServiceM8 job; every upsert that
\* writes replaces the record's values by the writing request's own (last write
\* wins), and once both requests have finished their upserts each synced job has
\* exactly one record, carrying the values fetched by one of the requests in
\* progress (one of the two, when no third request writes the same job).
Synced(r) ==
    /\ inflight[r].pc = "sync"
    /\ inflight[r].pending = {}
    /\ inflight[r].inserting = {}

Carries(d, r, u) ==
    /\ u \in inflight[r].customerJobs
    /\ DataOf(d) = JobData(u, inflight[r].jobs[u], inflight[r].cust)

C15_OneRecordPerJob ==
    /\ \A u \in JobUuids : Cardinality(DocsByUuid(jobsDb, u)) <= 1
    /\ \A r1, r2 \in Requests :
          (r1 < r2 /\ inflight[r1].cust = inflight[r2].cust /\ Synced(r1) /\ Synced(r2))
          => \A u \in inflight[r1].customerJobs \cup inflight[r2].customerJobs :
                \E d \in jobsDb :
                    /\ DocsByUuid(jobsDb, u) = {d}
                    /\ \E r \in Requests : Carries(d, r, u)
                    /\ Len(inflight) = 2 => (Carries(d, r1, u) \/ Carries(d, r2, u))

C15_LastWriteWins ==
    [][\A r \in Requests, u \in JobUuids :
          (/\ u \in inflight[r].pending \cup inflight[r].inserting
           /\ u \notin inflight'[r].pending \cup inflight'[r].inserting
           /\ inflight'[r].saved # inflight[r].saved)
          => \E d \in jobsDb' :
                /\ DocsByUuid(jobsDb', u) = {d}
                /\ DataOf(d) = JobData(u, inflight[r].jobs[u], inflight[r].cust)
                /\ d.updatedAt = now]_vars

C15_ConcurrentSync == []C15_OneRecordPerJob /\ C15_LastWriteWins

C15_Witness ==
    /\ Len(inflight) = 2
    /\ inflight[1].cust = inflight[2].cust
    /\ Synced(1) /\ Synced(2)
    /\ \E u \in inflight[1].customerJobs \cap inflight[2].customerJobs :
          /\ inflight[1].jobs[u].status # inflight[2].jobs[u].status
          /\ \E d \in jobsDb : DocsByUuid(jobsDb, u) = {d} /\ Carries(d, 1, u)

\* C16: the response to an ownership mismatch depends on the operation only:
\* whatever the job's and the customer's company identifiers are, the caller
\* receives status 403 with the operation's fixed message, and no part of the
\* response is either identifier (both appear in the logged warning only).
C16_ForbiddenLeaksNoIdentifier ==
    (GuardLooked(resp) /\ resp.outcome = "Forbidden")
    => /\ resp.code = 403
       /\ resp.body = [success |-> FALSE, message |-> <<ForbiddenMessage(resp.op)>>]
       /\ \A i \in 1..Len(resp.body.message) :
             resp.body.message[i] \notin {ToString(resp.lookedCompany),
                                          ToString(resp.custCompany)}
       /\ resp.audit.jobCompanyUuid = resp.lookedCompany
       /\ resp.audit.customerCompanyUuid = resp.custCompany

C16_Witness ==
    /\ GuardLooked(resp)
    /\ resp.outcome = "Forbidden"
    /\ resp.op = "getMessages"
    /\ resp.lookedCompany \notin {NoUuid, resp.custCompany}
    /\ resp.custCompany # NoUuid
    /\ resp.audit.jobCompanyUuid = resp.lookedCompany
    /\ resp.body.message = <<ForbiddenMessage("getMessages")>>

\* C17: authMiddleware admits a request exactly when its bearer token verifies
\* (signature and expiry) and the token's customer exists, whatever the Session
\* collection holds; logout deletes the session of the presented token and
\* nothing else, and the token stays admitted until it expires.
AuthStep == resp' # resp /\ resp'.gen = "auth" /\ resp'.op \in {"me", "logout"}

C17_AuthIgnoresSessions ==
    [][AuthStep
       => /\ (resp'.outcome = "ok")
              <=> (VerifyToken(resp'.token, now)
                   /\ resp'.token.customerId \in DOMAIN customers)
          /\ resp'.outcome # "ok" => resp'.outcome = "Unauthorized" /\ resp'.code = 401
          /\ (resp'.op = "logout" /\ resp'.outcome = "ok")
              => sessions' = {s \in sessions : s.token # resp'.token}
          /\ resp'.op = "me" => sessions' = sessions]_vars

C17_Witness ==
    /\ resp.op = "me"
    /\ resp.outcome = "ok"
    /\ resp.token \in tokens
    /\ resp.token.iat > 0
    /\ VerifyToken(resp.token, now)
    /\ ~\E s \in sessions : s.token = resp.token
    /\ \E s \in sessions : s.customerId = resp.token.customerId

\* C18: getBookingById calls the ServiceM8 attachment endpoint only when no
\* attachment record is cached for the job; once a job has an attachment
\* record, a getBookingById on it neither calls that endpoint nor inserts,
\* updates or removes any attachment record.
CachedAttachmentsOf(id) == {a \in attachments : a.jobId = id}

C18_AttachmentsFetchedOnMissOnly ==
    [][/\ (resp' # resp /\ resp'.latest /\ resp'.op = "getBookingById")
          => /\ Called(resp', "GET attachments") => CachedAttachmentsOf(resp'.jobUuid) = {}
             /\ CachedAttachmentsOf(resp'.jobUuid) # {} => attachments' = attachments
       /\ attachments' # attachments
          => /\ resp'.op = "getBookingById"
             /\ resp'.latest
             /\ Called(resp', "GET attachments")
             /\ CachedAttachmentsOf(resp'.jobUuid) = {}]_vars

C18_Witness ==
    /\ resp.op = "getBookingById"
    /\ resp.outcome = "ok"
    /\ resp.latest
    /\ ~Called(resp, "GET attachments")
    /\ CachedAttachmentsOf(resp.jobUuid) # {}
    /\ \E a \in extAttachments[resp.job.servicem8Uuid] :
          a \notin {c.servicem8Uuid : c \in attachments}

\* C19: when getAllBookings misses the cache and the fetch of the ServiceM8 job
\* list fails, the call answers with an error and has inserted or updated no
\* job record: the Job collection is exactly as it was before the call.
ListFetchFailed(r) ==
    /\ r.op = "getAllBookings"
    /\ Called(r, "GET jobs")
    /\ ~Called(r, "job.upsert")

C19_FailedFetchCachesNothing ==
    [][((resp' # resp \/ jobsDb' # jobsDb) /\ resp'.latest /\ ListFetchFailed(resp'))
       => /\ resp'.outcome = "UpstreamError"
          /\ resp'.code = 500
          /\ resp'.bookings = {}
          /\ jobsDb' = jobsDb
          /\ nextId' = nextId]_vars

C19_Witness ==
    /\ ListFetchFailed(resp)
    /\ resp.latest
    /\ resp.outcome = "UpstreamError"
    /\ \E d \in jobsDb :
          /\ d.customerId = resp.cust
          /\ JobExists(d.servicem8Uuid)
          /\ d.status # extJobs[d.servicem8Uuid].status

\* C20: createJob for a customer without a ServiceM8 company identifier, when
\* the company creation fails, fails with JobCreationError, never issues the
\* job-creation call, and leaves the customer's stored identifier unset.
CompanyCreationFailed(r) ==
    /\ r.op = "createJob"
    /\ r.gen = "ext"
    /\ r.custCompany = NoUuid
    /\ Called(r, "POST company")
    /\ ~Called(r, "customer.save")

C20_CompanyFailureStopsCreateJob ==
    [][(resp' # resp /\ resp'.latest /\ CompanyCreationFailed(resp'))
       => /\ resp'.outcome = "JobCreationError"
          /\ resp'.code = 500
          /\ ~Called(resp', "POST job")
          /\ extJobs' = extJobs
          /\ customers'[resp'.cust].servicem8ClientUuid = NoUuid]_vars

C20_Witness ==
    /\ CompanyCreationFailed(resp)
    /\ resp.outcome = "JobCreationError"
    /\ customers[resp.cust].servicem8ClientUuid = NoUuid
    /\ \E c \in Customers : customers[c].servicem8ClientUuid # NoUuid

\* C21: after any sequence or interleaving of getBookingById requests the
\* Attachment collection holds at most one record per ServiceM8 attachment
\* identifier.
C21_OneRecordPerAttachment ==
    \A a \in 1..MaxAttachments :
        Cardinality({d \in attachments : d.servicem8Uuid = a}) <= 1

\* C22: a customer whose ServiceM8 company identifier is unset never passes
\* the ownership guard of updateJob, deleteJob, getMessages or sendMessage,
\* whatever the job, a job without company_uuid included.
C22_UnsetCustomerNeverPasses ==
    (GuardLooked(resp) /\ resp.custCompany = NoUuid)
    => /\ ~Proceeded(resp)
       /\ resp.outcome \in {"NotFound", "Forbidden"}

\* C23: a getAllBookings result served from the cache is the complete set of
\* the customer's cached job records, never a strict subset of them.
C23_CachedListIsComplete ==
    [][(resp' # resp /\ resp'.latest /\ resp'.op = "getAllBookings"
            /\ resp'.outcome = "ok" /\ resp'.cached)
       => resp'.bookings =
              {MapJobToSummary(d) : d \in {x \in jobsDb : x.customerId = resp'.cust}}]_vars

\* C24: on the fetch path of getAllBookings a customer with an email and no
\* phone number is attributed only jobs whose contact email equals the
\* customer's email (case-insensitively); a job's contact phone never matches
\* a missing customer phone.
C24_MissingPhoneMatchesNothing ==
    [][(GetAllBookingsStep /\ resp'.outcome = "ok" /\ ~resp'.cached
            /\ customers[resp'.cust].phone = NoPhone
            /\ customers[resp'.cust].email # NoEmail)
       => /\ \A b \in resp'.bookings :
                NormalizeEmail(extJobs[b.servicem8Uuid].job_contact_email)
                    = NormalizeEmail(customers[resp'.cust].email)
          /\ \A d \in jobsDb' :
                (d.customerId = resp'.cust /\ d.updatedAt = now)
                => NormalizeEmail(d.contactEmail)
                       = NormalizeEmail(customers[resp'.cust].email)]_vars

\* C25: a sync for one customer never changes which customer a cached job
\* record belongs to: every record keeps the customerId it was first cached
\* with.
C25_SyncKeepsCustomerId ==
    [][\A d \in jobsDb : \A e \in jobsDb' :
          e._id = d._id => e.customerId = d.customerId]_vars

\* C26: when two updateJob requests of the owner on one job supply disjoint
\* fields and both have reported success, the ServiceM8 job holds both
\* updates, whatever the interleaving of their read, merge and write steps.
Finished(r, op) == inflight[r].op = op /\ inflight[r].pc = "done"

SuppliedFields(input) == {f \in DOMAIN input : Truthy(input[f])}

C26_DisjointUpdatesBothApply ==
    \A r1, r2 \in Requests :
        (/\ r1 # r2
         /\ Finished(r1, "updateJob") /\ Finished(r2, "updateJob")
         /\ inflight[r1].j = inflight[r2].j
         /\ SuppliedFields(inflight[r1].input) \cap SuppliedFields(inflight[r2].input) = {})
        => \A f \in SuppliedFields(inflight[r1].input) :
              extJobs[inflight[r1].j][f] = inflight[r1].input[f]

\* C27: once deleteJob has reported success for a job, the job stays inactive
\* in ServiceM8 (so every later guarded request on it is answered NotFound),
\* also when an updateJob on the job was in progress during the deleteJob.
C27_DeletionIsPermanent ==
    \A r \in Requests :
        Finished(r, "deleteJob") => JobInactive(extJobs[inflight[r].j])

\* C28: for a customer that starts without a company identifier, concurrent
\* createJob calls create at most one company for it, and every job they
\* created carries the identifier finally stored on the customer record.
CompaniesCreatedFor(c) ==
    {r \in Requests : inflight[r].cust = c /\ inflight[r].createdCompany}

C28_OneCompanyPerCustomer ==
    \A c \in Customers :
        /\ Cardinality(CompaniesCreatedFor(c)) <= 1
        /\ (\A r \in Requests : inflight[r].cust = c => inflight[r].pc = "done")
              => \A r \in Requests :
                    inflight[r].cust = c
                       => extJobs[inflight[r].jobUuid].company_uuid
                             = customers[c].servicem8ClientUuid

\* C29: whenever createJob answers JobCreationError, the call has created no
\* job in ServiceM8.
C29_FailedCreateCreatesNoJob ==
    [][(/\ resp' # resp
        /\ resp'.latest
        /\ resp'.op = "createJob"
        /\ resp'.gen = "ext"
        /\ resp'.outcome = "JobCreationError")
       => extJobs' = extJobs]_vars

\* C30: the customer collection holds at most one customer per normalized
\* email and at most one per phone; a register call that finds its email or
\* phone held by an existing customer, at its lookup or at its insert, is
\* answered 409, and no register call whose email or phone is held by another
\* customer creates a customer or a session.
HeldByOther(store, input, c) ==
    \E i \in DOMAIN store :
        /\ store[i]._id # c
        /\ \/ input.email # NoEmail /\ store[i].email = NormalizeEmail(input.email)
           \/ TrimPhone(input.phone) # Undef /\ store[i].phone = TrimPhone(input.phone)

C30_OneCustomerPerIdentity ==
    \A i, k \in DOMAIN customers :
        i # k => /\ customers[i].email # NoEmail
                    => NormalizeEmail(customers[i].email) # NormalizeEmail(customers[k].email)
                 /\ customers[i].phone # Undef => customers[i].phone # customers[k].phone

C30_DuplicateIsConflict ==
    [][(/\ resp' # resp
        /\ resp'.latest
        /\ resp'.op = "register"
        /\ resp'.outcome # "Validation"
        /\ HeldByOther(customers, resp'.input, resp'.cust))
       => /\ customers' = customers
          /\ sessions' = sessions
          /\ resp'.calls[Len(resp'.calls)] \in {"customer.findOne", "customer.create"}
                => resp'.code = 409]_vars

====
